---- MODULE Spec2Model ----
(***************************************************************************)
(* Hierarchical tag aggregation, export runs and the stored session of the *)
(* Study Navigator Anki add-on.                                            *)
(*                                                                         *)
(* A tag is a Python str.  It is modelled as the sequence of its           *)
(* characters (one-character strings), so that str.split('::'),            *)
(* '::'.join, str.count('::'), str.lower, the substring test and the       *)
(* yield-level pattern are computed the way Python computes them.  In a    *)
(* plain tag a letter stands for any run of characters without a colon;    *)
(* a yield marker such as 1-HighYield is spelled out in full.              *)
(*                                                                         *)
(* A Python dict is modelled in two ways: a dict that the code iterates    *)
(* (cards_by_id, cards_by_tag) is the sequence of its items in insertion   *)
(* order; a dict that is only looked up (tag_hierarchy, tag_to_cards,      *)
(* card_to_tags, hierarchical_data) is a function whose DOMAIN is the key  *)
(* set.  A Python set is a set; iterating one visits it in any order.      *)
(***************************************************************************)
EXTENDS Integers, Sequences, FiniteSets, Bags, TLC

VARIABLES
    pc,                 \* position in export_data / _get_hierarchical_export_data
    cards_by_id,        \* BaseExportService.cards_by_id
    cards_by_tag,       \* filtered_cards_by_tag
    tag_counter,        \* BaseExportService.tag_counter (HierarchicalTagCounter)
    sorted_tags,        \* local of calculate_hierarchical_counts
    idx,                \* position of its for loop in sorted_tags
    hierarchical_data,  \* local / return value of calculate_hierarchical_counts
    fallback_taken,     \* TRUE once the loop has run line 90 (child not yet computed)
    export_data,        \* return value of _create_export_data_fast
    record_count,       \* len(export_data) as returned by the run
    revlog_by_card,     \* BaseExportService.revlog_by_card
    col_available,      \* mw is not None and mw.col is not None
    exports_dir,        \* the files of the exports directory
    result,             \* what the entry point handed to its caller
    upload_requests,    \* file paths handed to upload_compressed_file
    sink_fault,         \* what the file system did to the run's gzip.open / write
    snapshot,           \* the rows of the collection that the entry point's run read
    store,              \* session storage: OS keychain and the file at the session path
    refresher,          \* the call of get_valid_token in progress (main thread)
    marker,             \* the call of mark_user_synced in progress (background thread)
    yield_call          \* a call of _get_yield_level: its argument and what it returned

\* the variables of session_store
session_vars == <<store, refresher, marker>>

\* the variables outside the aggregation pipeline
io_vars == <<col_available, exports_dir, result, upload_requests, sink_fault,
             snapshot, store, refresher, marker, yield_call>>

vars == <<pc, cards_by_id, cards_by_tag, tag_counter, sorted_tags, idx,
          hierarchical_data, fallback_taken, export_data, record_count,
          revlog_by_card, col_available, exports_dir, result, upload_requests,
          sink_fault, snapshot, store, refresher, marker, yield_call>>

---------------------------------------------------------------------------
(* Bounds *)

MaxCards == 2           \* cards in the snapshot
MaxTagEntries == 3      \* tag entries of the snapshot, over all its cards
MaxSegments == 3        \* segments of a tag handed to _get_yield_level
MaxListings == 2        \* cards listed under the key of a mapping a counter is built from
MaxSnapshotSize == 4    \* cards plus tag entries of a snapshot of studied cards

\* result before the entry point has returned
NoResult == [returned |-> FALSE]

\* load_session() returned None: there is no session
NoSession == [present |-> FALSE]

\* there is no file at the session path
NoFile == [kind |-> "absent", session |-> NoSession]

\* no keyring and no cryptography library, nothing stored
EmptyStore == [keyring |-> "missing", fernet |-> FALSE,
               keychain |-> NoSession, file |-> NoFile, migrated |-> FALSE]

\* _get_yield_level has not been called
NoYieldCall == [returned |-> FALSE]

\* get_valid_token is not running
IdleRefresher == [pc |-> "idle", session |-> NoSession, status_code |-> 0,
                  resp_error |-> "", has_token |-> FALSE,
                  network_error |-> FALSE, ends_in |-> ""]

\* mark_user_synced is not running
IdleMarker == [pc |-> "idle", session |-> NoSession]

---------------------------------------------------------------------------
(* Python strings *)

Colon == ":"

Str_a    == <<"a">>
Str_b    == <<"b">>
Str_ab   == <<"a", ":", ":", "b">>
Str_abc  == <<"a", ":", ":", "b", ":", ":", "c">>
Str_a3b  == <<"a", ":", ":", ":", "b">>     \* 'a:::b'

\* '::' occurs in s at position i
SepAt(s, i) == i + 1 <= Len(s) /\ s[i] = Colon /\ s[i + 1] = Colon

\* '::' in s
HasSep(s) == \E i \in 1..Len(s) : SepAt(s, i)

\* s.split('::'), scanning left to right from position i with the part
\* collected so far
RECURSIVE SplitFrom(_, _, _)
SplitFrom(s, i, cur) ==
    IF i > Len(s) THEN <<cur>>
    ELSE IF SepAt(s, i) THEN <<cur>> \o SplitFrom(s, i + 2, <<>>)
    ELSE SplitFrom(s, i + 1, Append(cur, s[i]))

Split(s) == SplitFrom(s, 1, <<>>)

\* '::'.join(parts)
RECURSIVE Join(_)
Join(parts) ==
    IF Len(parts) = 0 THEN <<>>
    ELSE IF Len(parts) = 1 THEN parts[1]
    ELSE parts[1] \o <<Colon, Colon>> \o Join(Tail(parts))

\* s.count('::'): non-overlapping occurrences, left to right
RECURSIVE CountFrom(_, _)
CountFrom(s, i) ==
    IF i > Len(s) THEN 0
    ELSE IF SepAt(s, i) THEN 1 + CountFrom(s, i + 2)
    ELSE CountFrom(s, i + 1)

CountSep(s) == CountFrom(s, 1)

\* pattern in tag (substring test)
Contains(tag, pattern) ==
    \E i \in 0..(Len(tag) - Len(pattern)) :
        SubSeq(tag, i + 1, i + Len(pattern)) = pattern

\* dict.get(key, default)
Get(d, key, default) == IF key \in DOMAIN d THEN d[key] ELSE default

---------------------------------------------------------------------------
(* Yield markers: _is_high_yield_tag and _get_yield_level.  The marker     *)
(* tags are spelled character by character, since the code lower-cases     *)
(* them and searches them for substrings.                                  *)

Str_Y1   == <<"1", "-", "H", "i", "g", "h", "Y", "i", "e", "l", "d">>
Str_aY1  == <<"a", ":", ":">> \o Str_Y1                         \* 'a::1-HighYield'
Str_aY5  == <<"a", ":", ":", "5", "_", "L", "o", "w", "Y", "i", "e", "l", "d">>
Str_Y1b  == Str_Y1 \o <<":", ":", "b">>                         \* '1-HighYield::b'

Pat_high        == <<"h", "i", "g", "h">>
Pat_yield       == <<"y", "i", "e", "l", "d">>
Pat_highyield   == Pat_high \o Pat_yield
Pat_lowyield    == <<"l", "o", "w">> \o Pat_yield
Pat_loweryield  == <<"l", "o", "w", "e", "r">> \o Pat_yield

\* str.lower() on the characters that occur in the tags of the model
LowerChar(ch) ==
    CASE ch = "H" -> "h"
      [] ch = "Y" -> "y"
      [] ch = "L" -> "l"
      [] ch = "I" -> "i"
      [] ch = "G" -> "g"
      [] ch = "E" -> "e"
      [] ch = "D" -> "d"
      [] OTHER    -> ch

ToLower(s) == [i \in 1..Len(s) |-> LowerChar(s[i])]

is_high_yield_tag(tag) ==
    LET tag_lower == ToLower(tag)
    IN  \/ Contains(tag_lower, Pat_high) /\ Contains(tag_lower, Pat_yield)
        \/ Contains(tag_lower, Pat_highyield)
        \/ Contains(tag_lower, Pat_lowyield)
        \/ Contains(tag_lower, Pat_loweryield)

\* variant: the digit alone matches, without the '-' or '_' after it
MatchLevel_DigitOnly(s) ==
    IF Len(s) >= 1 /\ s[1] \in {"1", "2", "3", "4", "5"}
    THEN CASE s[1] = "1" -> 1
           [] s[1] = "2" -> 2
           [] s[1] = "3" -> 3
           [] s[1] = "4" -> 4
           [] s[1] = "5" -> 5
    ELSE 0

\* int(match.group(1)) of re.match(r'^([1-5])[-_]', s), 0 when there is no match
MatchLevel(s) ==
    IF Len(s) >= 2 /\ s[1] \in {"1", "2", "3", "4", "5"} /\ s[2] \in {"-", "_"}
    THEN CASE s[1] = "1" -> 1
           [] s[1] = "2" -> 2
           [] s[1] = "3" -> 3
           [] s[1] = "4" -> 4
           [] s[1] = "5" -> 5
    ELSE 0

\* the for loop over tag.split('::'): the first part that matches
RECURSIVE FirstPartLevel(_, _)
FirstPartLevel(parts, i) ==
    IF i > Len(parts) THEN 0
    ELSE IF MatchLevel(parts[i]) > 0 THEN MatchLevel(parts[i])
    ELSE FirstPartLevel(parts, i + 1)

get_yield_level(tag) ==
    IF ~ is_high_yield_tag(tag) THEN 0
    ELSE IF MatchLevel(tag) > 0 THEN MatchLevel(tag)
    ELSE FirstPartLevel(Split(tag), 1)

\* the tag paths a note can carry: two roots, two children of one root
\* (one with a colon at the start of its second segment) and a grandchild
TagUniverse == {Str_a, Str_b, Str_ab, Str_a3b, Str_abc}

\* the tag paths of the notes that carry yield markers: a root, two yield
\* markers of different levels below it, and a path below a root that is
\* itself a yield marker
YieldTagUniverse == {Str_a, Str_aY1, Str_aY5, Str_Y1b}

\* _get_yield_level of the tags of the snapshots and of their prefixes,
\* computed once
YieldLevelTable ==
    [s \in UNION {{SubSeq(t, 1, k) : k \in 0..Len(t)} :
                    t \in TagUniverse \cup YieldTagUniverse} |-> get_yield_level(s)]

\* self._get_yield_level(tag)
YieldLevel(tag) ==
    IF tag \in DOMAIN YieldLevelTable THEN YieldLevelTable[tag] ELSE get_yield_level(tag)

\* the segments of the tags _get_yield_level is called with: a plain
\* segment, markers of levels 1 and 5 with either separator, a marker in
\* upper case, markers whose digit has no separator, is out of 1-5 or is
\* not at the start, a level prefix without a marker, and 'high' and
\* 'yield' as segments of their own
Seg_Y5        == SubSeq(Str_aY5, 4, Len(Str_aY5))               \* '5_LowYield'
Seg_NoSep     == <<"1">> \o SubSeq(Str_Y1, 3, Len(Str_Y1))      \* '1HighYield'
Seg_Six       == <<"6">> \o Tail(Str_Y1)                        \* '6-HighYield'
Seg_Inner     == <<"b", "2">> \o Tail(Str_Y1)                   \* 'b2-HighYield'
Seg_Upper     == <<"3", "-", "H", "I", "G", "H", "Y", "I", "E", "L", "D">>
Seg_Plain2    == <<"2", "-", "b">>                              \* '2-b'
Seg_4yield    == <<"4", "_">> \o Pat_yield                      \* '4_yield'

YieldSegments ==
    {Str_a, Str_Y1, Seg_Y5, Seg_NoSep, Seg_Six, Seg_Inner, Seg_Upper, Seg_Plain2,
     Seg_4yield, Pat_high}

\* the lists of segments of a tag: MaxSegments segments at most
SegmentLists == UNION {[1..n -> YieldSegments] : n \in 1..MaxSegments}

---------------------------------------------------------------------------
(* AllTagsExportService and the tag filter *)

get_filter_criteria == [include_patterns |-> {}, exclude_patterns |-> {}]

\* variant: the include test runs without the 'if include_patterns' guard
matches_criteria_fast_Unguarded(tag, criteria) ==
    IF criteria.exclude_patterns # {}
          /\ \E p \in criteria.exclude_patterns : Contains(tag, p)
    THEN FALSE
    ELSE IF ~ \E p \in criteria.include_patterns : Contains(tag, p)
    THEN FALSE
    ELSE TRUE

matches_criteria_fast(tag, criteria) ==
    IF criteria.exclude_patterns # {}
          /\ \E p \in criteria.exclude_patterns : Contains(tag, p)
    THEN FALSE
    ELSE IF criteria.include_patterns # {}
          /\ ~ \E p \in criteria.include_patterns : Contains(tag, p)
    THEN FALSE
    ELSE TRUE

\* position of tag among the keys of the item sequence d, 0 when absent
KeyIndex(d, tag) ==
    IF \E i \in 1..Len(d) : d[i].tag = tag
    THEN CHOOSE i \in 1..Len(d) : d[i].tag = tag
    ELSE 0

\* cards_by_tag[tag].append(card_info) on a defaultdict(list)
AppendCard(d, tag, card) ==
    IF KeyIndex(d, tag) = 0
    THEN Append(d, [tag |-> tag, cards |-> <<card>>])
    ELSE [d EXCEPT ![KeyIndex(d, tag)].cards = Append(@, card)]

\* the inner loop of _filter_cards_by_tag_fast: the tags of one card
RECURSIVE FilterTags(_, _, _, _)
FilterTags(d, card, j, criteria) ==
    IF j > Len(card.tags) THEN d
    ELSE FilterTags(IF matches_criteria_fast(card.tags[j], criteria)
                    THEN AppendCard(d, card.tags[j], card)
                    ELSE d,
                    card, j + 1, criteria)

\* the outer loop of _filter_cards_by_tag_fast: the cards from the i-th on
RECURSIVE FilterCards(_, _, _, _)
FilterCards(d, cards, i, criteria) ==
    IF i > Len(cards) THEN d
    ELSE FilterCards(FilterTags(d, cards[i], 1, criteria), cards, i + 1, criteria)

filter_cards_by_tag_fast(cards) == FilterCards(<<>>, cards, 1, get_filter_criteria)

---------------------------------------------------------------------------
(* HierarchicalTagCounter *)

NewTagCounter ==
    [tag_hierarchy    |-> <<>>,
     card_to_tags     |-> <<>>,
     tag_to_cards     |-> <<>>,
     unique_card_ids  |-> {},
     hierarchy_built  |-> FALSE]

\* variant: only the edge from the tag's parent to the tag is registered
HierarchyEdges_LastOnly(tag_name) ==
    IF ~ HasSep(tag_name) THEN {}
    ELSE LET tag_parts == Split(tag_name)
         IN  {<<Join(SubSeq(tag_parts, 1, Len(tag_parts) - 1)), tag_name>>}

\* variant: every ancestor gets the tag itself as its child
HierarchyEdges_ToLeaf(tag_name) ==
    IF ~ HasSep(tag_name) THEN {}
    ELSE LET tag_parts == Split(tag_name)
         IN  {<<Join(SubSeq(tag_parts, 1, i + 1)), tag_name>> :
                 i \in 0..(Len(tag_parts) - 2)}

\* the (parent, child) pairs _build_tag_hierarchy_fast registers for one tag
HierarchyEdges(tag_name) ==
    IF ~ HasSep(tag_name) THEN {}
    ELSE LET tag_parts == Split(tag_name)
         IN  {<<Join(SubSeq(tag_parts, 1, i + 1)), Join(SubSeq(tag_parts, 1, i + 2))>> :
                 i \in 0..(Len(tag_parts) - 2)}

\* self.tag_hierarchy[parent].add(child) for every registered pair
build_tag_hierarchy_fast(tag_hierarchy, tag_name) ==
    LET edges == HierarchyEdges(tag_name)
    IN  [p \in DOMAIN tag_hierarchy \cup {e[1] : e \in edges} |->
            Get(tag_hierarchy, p, {}) \cup {e[2] : e \in {f \in edges : f[1] = p}}]

\* one iteration of the for loop of build_hierarchy_from_cards
BuildTag(c, tag, cards) ==
    LET card_ids == {cards[k].id : k \in {n \in 1..Len(cards) : cards[n].id # 0}}
    IN  [tag_hierarchy   |-> build_tag_hierarchy_fast(c.tag_hierarchy, tag),
         card_to_tags    |-> [cid \in DOMAIN c.card_to_tags \cup card_ids |->
                                 IF cid \in card_ids
                                 THEN Get(c.card_to_tags, cid, {}) \cup {tag}
                                 ELSE c.card_to_tags[cid]],
         tag_to_cards    |-> [t \in DOMAIN c.tag_to_cards \cup {tag} |->
                                 IF t = tag THEN card_ids ELSE c.tag_to_cards[t]],
         unique_card_ids |-> c.unique_card_ids \cup card_ids,
         hierarchy_built |-> c.hierarchy_built]

RECURSIVE BuildFrom(_, _, _)
BuildFrom(c, d, i) ==
    IF i > Len(d) THEN c
    ELSE BuildFrom(BuildTag(c, d[i].tag, d[i].cards), d, i + 1)

\* variant: without the test of lines 17-18, a built counter reads the
\* mapping again
build_hierarchy_from_cards_Unguarded(c, d) ==
    [BuildFrom(c, d, 1) EXCEPT !.hierarchy_built = TRUE]

build_hierarchy_from_cards(c, d) ==
    IF c.hierarchy_built THEN c
    ELSE [BuildFrom(c, d, 1) EXCEPT !.hierarchy_built = TRUE]

\* HierarchicalTagCounter.reset: the four collections are cleared and the
\* flag is lowered
reset(c) ==
    [c EXCEPT !.tag_hierarchy   = <<>>,
              !.card_to_tags    = <<>>,
              !.tag_to_cards    = <<>>,
              !.unique_card_ids = {},
              !.hierarchy_built = FALSE]

\* variant: range(1, len(parts) + 1), the tag itself is listed last
get_parent_tags_fast_Inclusive(tag_name) ==
    IF ~ HasSep(tag_name) THEN <<>>
    ELSE LET parts == Split(tag_name)
         IN  [i \in 1..Len(parts) |-> Join(SubSeq(parts, 1, i))]

get_parent_tags_fast(tag_name) ==
    IF ~ HasSep(tag_name) THEN <<>>
    ELSE LET parts == Split(tag_name)
         IN  [i \in 1..(Len(parts) - 1) |-> Join(SubSeq(parts, 1, i))]

\* variant: only the tags with direct cards
AllTags_DirectOnly(c) == DOMAIN c.tag_to_cards

\* all_tags of calculate_hierarchical_counts
AllTags(c) == DOMAIN c.tag_to_cards \cup DOMAIN c.tag_hierarchy

\* variant: x.count('::'), shallowest first
SortKey_Ascending(x) == CountSep(x)

\* variant: -x.count('.'), a delimiter no tag contains
SortKey_WrongDelimiter(x) == 0

\* the sort key, lambda x: -x.count('::')
SortKey(x) == 0 - CountSep(x)

\* sorted(all_tags, key=...): the set is iterated in any order and the sort
\* is stable, so every ordering by non-decreasing key can be the result
RECURSIVE SortedOrders(_)
SortedOrders(S) ==
    IF S = {} THEN {<<>>}
    ELSE LET first == {x \in S : \A y \in S : SortKey(x) <= SortKey(y)}
         IN  UNION {{<<x>> \o rest : rest \in SortedOrders(S \ {x})} : x \in first}

\* some child of tag has no entry in hierarchical_data yet (line 88)
UsesFallback(hd, c, tag) ==
    \E child \in Get(c.tag_hierarchy, tag, {}) : child \notin DOMAIN hd

\* variant: a child always contributes its direct cards only
TagEntry_ChildDirectOnly(hd, c, tag) ==
    LET direct_cards == Get(c.tag_to_cards, tag, {})
        children     == Get(c.tag_hierarchy, tag, {})
        all_cards    == direct_cards \cup
                        UNION {Get(c.tag_to_cards, child, {}) : child \in children}
    IN  [direct_cards       |-> direct_cards,
         all_unique_cards   |-> all_cards,
         direct_count       |-> Cardinality(direct_cards),
         hierarchical_count |-> Cardinality(all_cards),
         children_count     |-> Cardinality(all_cards) - Cardinality(direct_cards),
         children_tags      |-> children,
         parent_tags        |-> get_parent_tags_fast(tag)]

\* variant: all_cards starts empty instead of direct_cards.copy()
TagEntry_ChildrenOnly(hd, c, tag) ==
    LET direct_cards == Get(c.tag_to_cards, tag, {})
        children     == Get(c.tag_hierarchy, tag, {})
        all_cards    == UNION {IF child \in DOMAIN hd
                               THEN hd[child].all_unique_cards
                               ELSE Get(c.tag_to_cards, child, {}) : child \in children}
    IN  [direct_cards       |-> direct_cards,
         all_unique_cards   |-> all_cards,
         direct_count       |-> Cardinality(direct_cards),
         hierarchical_count |-> Cardinality(all_cards),
         children_count     |-> Cardinality(all_cards) - Cardinality(direct_cards),
         children_tags      |-> children,
         parent_tags        |-> get_parent_tags_fast(tag)]

\* one iteration of the for loop of calculate_hierarchical_counts: the entry
\* hierarchical_data[tag]
TagEntry(hd, c, tag) ==
    LET direct_cards == Get(c.tag_to_cards, tag, {})
        children     == Get(c.tag_hierarchy, tag, {})
        all_cards    == direct_cards \cup
                        UNION {IF child \in DOMAIN hd
                               THEN hd[child].all_unique_cards
                               ELSE Get(c.tag_to_cards, child, {}) : child \in children}
    IN  [direct_cards       |-> direct_cards,
         all_unique_cards   |-> all_cards,
         direct_count       |-> Cardinality(direct_cards),
         hierarchical_count |-> Cardinality(all_cards),
         children_count     |-> Cardinality(all_cards) - Cardinality(direct_cards),
         children_tags      |-> children,
         parent_tags        |-> get_parent_tags_fast(tag)]

PutEntry(hd, c, tag) ==
    [t \in DOMAIN hd \cup {tag} |-> IF t = tag THEN TagEntry(hd, c, tag) ELSE hd[t]]

RECURSIVE CountFromIndex(_, _, _, _)
CountFromIndex(hd, c, order, i) ==
    IF i > Len(order) THEN hd
    ELSE CountFromIndex(PutEntry(hd, c, order[i]), c, order, i + 1)

\* calculate_hierarchical_counts when sorted() returned order
calculate_hierarchical_counts(c, order) == CountFromIndex(<<>>, c, order, 1)

---------------------------------------------------------------------------
(* _create_export_data_fast *)

\* self.cards_by_id.get(card_id): the position of the card, 0 for None
CardIndex(by_id, card_id) ==
    IF \E i \in 1..Len(by_id) : by_id[i].id = card_id
    THEN CHOOSE i \in 1..Len(by_id) : by_id[i].id = card_id
    ELSE 0

\* lines 348-353: the level of the first tag of the list that has one
RECURSIVE FirstYieldLevel(_, _)
FirstYieldLevel(card_tags, j) ==
    IF j > Len(card_tags) THEN 0
    ELSE IF YieldLevel(card_tags[j]) > 0 THEN YieldLevel(card_tags[j])
    ELSE FirstYieldLevel(card_tags, j + 1)

\* _get_cards_by_yield_level
get_cards_by_yield_level(cards, yield_level) ==
    SelectSeq(cards, LAMBDA card :
        \E j \in 1..Len(card.tags) : YieldLevel(card.tags[j]) = yield_level)

IsNew(c)       == c.reps = 0
IsLearning(c)  == c.queue = 1
IsReview(c)    == c.queue = 2
\* variant: c.get("ivl", 0) >= 21
IsMature_AtThreshold(c) == c.ivl >= 21

IsMature(c)    == c.ivl > 21
IsSuspended(c) == c.suspended
IsDue(c)       == c.due >= 0 /\ ~ c.suspended

\* the condition of one counting comprehension, by the name of its counter
CardTest(test, c) ==
    CASE test = "due"       -> IsDue(c)
      [] test = "new"       -> IsNew(c)
      [] test = "learning"  -> IsLearning(c)
      [] test = "review"    -> IsReview(c)
      [] test = "mature"    -> IsMature(c)
      [] test = "suspended" -> IsSuspended(c)

\* sum(1 for c in cards if test(c)) over a list
CountList(cards, test) ==
    Cardinality({i \in 1..Len(cards) : CardTest(test, cards[i])})

\* the same count over the cards of a set of ids; an id that cards_by_id
\* does not hold is skipped
CountIds(by_id, ids, test) ==
    Cardinality({cid \in ids : /\ CardIndex(by_id, cid) # 0
                               /\ CardTest(test, by_id[CardIndex(by_id, cid)])})

ZeroStats == [level \in 1..5 |-> [total |-> 0, new |-> 0, review |-> 0]]

\* variant: the sub-counts of the level are left at 0
YieldStatsOfMarker_Unfilled(cards, tag_yield_level) == ZeroStats

\* lines 327-336: the tag is itself a yield marker of level tag_yield_level
YieldStatsOfMarker(cards, tag_yield_level) ==
    [ZeroStats EXCEPT ![tag_yield_level] =
        [total  |-> Len(cards),
         new    |-> CountList(cards, "new"),
         review |-> CountList(cards, "review")]]

\* lines 341-360: a tag without direct cards, over the cards of its hierarchy
YieldStatsOfParent(by_id, all_cards) ==
    [level \in 1..5 |->
        LET at_level == {cid \in all_cards :
                /\ CardIndex(by_id, cid) # 0
                /\ FirstYieldLevel(by_id[CardIndex(by_id, cid)].tags, 1) = level}
        IN  [total  |-> Cardinality(at_level),
             new    |-> CountIds(by_id, at_level, "new"),
             review |-> CountIds(by_id, at_level, "review")]]

\* lines 362-367: a tag with direct cards
YieldStatsOfLeaf(cards) ==
    [level \in 1..5 |->
        LET level_cards == get_cards_by_yield_level(cards, level)
        IN  [total  |-> Len(level_cards),
             new    |-> CountList(level_cards, "new"),
             review |-> CountList(level_cards, "review")]]

\* sum(yield_stats[level][field] for level in range(1, 6))
SumLevels(yield_stats, field) ==
    yield_stats[1][field] + yield_stats[2][field] + yield_stats[3][field]
        + yield_stats[4][field] + yield_stats[5][field]

\* lines 375-406: the six state counts
StateCounts(by_id, cards, has_hierarchy, all_cards) ==
    IF Len(cards) = 0
    THEN IF has_hierarchy
         THEN [due_cards       |-> CountIds(by_id, all_cards, "due"),
               new_cards       |-> CountIds(by_id, all_cards, "new"),
               learning_cards  |-> CountIds(by_id, all_cards, "learning"),
               review_cards    |-> CountIds(by_id, all_cards, "review"),
               mature_cards    |-> CountIds(by_id, all_cards, "mature"),
               suspended_cards |-> CountIds(by_id, all_cards, "suspended")]
         ELSE [due_cards |-> 0, new_cards |-> 0, learning_cards |-> 0,
               review_cards |-> 0, mature_cards |-> 0, suspended_cards |-> 0]
    ELSE [due_cards       |-> CountList(cards, "due"),
          new_cards       |-> CountList(cards, "new"),
          learning_cards  |-> CountList(cards, "learning"),
          review_cards    |-> CountList(cards, "review"),
          mature_cards    |-> CountList(cards, "mature"),
          suspended_cards |-> CountList(cards, "suspended")]

\* all_revlogs of a list of card ids: one extend per listed id
RECURSIVE RevlogsOfList(_, _, _)
RevlogsOfList(revlog, card_ids, i) ==
    IF i > Len(card_ids) THEN <<>>
    ELSE Get(revlog, card_ids[i], <<>>) \o RevlogsOfList(revlog, card_ids, i + 1)

\* all_revlogs of list(all_unique_cards): the set is listed in some order,
\* and only sums and counts are taken of the result
RECURSIVE RevlogsOfSet(_, _)
RevlogsOfSet(revlog, ids) ==
    IF ids = {} THEN <<>>
    ELSE LET cid == CHOOSE x \in ids : TRUE
         IN  Get(revlog, cid, <<>>) \o RevlogsOfSet(revlog, ids \ {cid})

\* sum(log.get("time", 0) for log in all_revlogs)
RECURSIVE SumTime(_)
SumTime(logs) == IF Len(logs) = 0 THEN 0 ELSE Head(logs).time + SumTime(Tail(logs))

\* a / b of two ints is a float: it is kept as the exact quotient
Quotient(a, b) == [num |-> a, den |-> b]

\* the number 0 among the quotients
Zero == Quotient(0, 1)

\* variant: the average is total_time_ms / total_reviews without the test
ReviewStats_Unguarded(all_revlogs) ==
    LET total_reviews == Len(all_revlogs)
        total_time_ms == SumTime(all_revlogs)
        WithEase(e)   == Len(SelectSeq(all_revlogs, LAMBDA log : log.ease = e))
    IN  [total_reviews |-> total_reviews,
         total_time_ms |-> total_time_ms,
         avg_time_ms   |-> Quotient(total_time_ms, total_reviews),
         again_count   |-> WithEase(1),
         hard_count    |-> WithEase(2),
         good_count    |-> WithEase(3),
         easy_count    |-> WithEase(4)]

\* lines 453-461, the statistics of all_revlogs
ReviewStats(all_revlogs) ==
    LET total_reviews == Len(all_revlogs)
        total_time_ms == SumTime(all_revlogs)
        WithEase(e)   == Len(SelectSeq(all_revlogs, LAMBDA log : log.ease = e))
    IN  [total_reviews |-> total_reviews,
         total_time_ms |-> total_time_ms,
         avg_time_ms   |-> IF total_reviews # 0
                           THEN Quotient(total_time_ms, total_reviews) ELSE Zero,
         again_count   |-> WithEase(1),
         hard_count    |-> WithEase(2),
         good_count    |-> WithEase(3),
         easy_count    |-> WithEase(4)]

\* lines 446-481
ReviewData(revlog, cards, has_hierarchy, all_cards) ==
    IF Len(cards) > 0
    THEN ReviewStats(RevlogsOfList(revlog, [i \in 1..Len(cards) |-> cards[i].id], 1))
    ELSE IF has_hierarchy
    THEN ReviewStats(RevlogsOfSet(revlog, all_cards))
    ELSE [total_reviews |-> 0, total_time_ms |-> 0, avg_time_ms |-> Zero,
          again_count |-> 0, hard_count |-> 0, good_count |-> 0, easy_count |-> 0]

\* lines 485-493; self.cards_by_id.get(card_id, {}).get("reps", 0) is 0 for
\* an id that cards_by_id does not hold
UnstudiedCards(by_id, cards, has_hierarchy, all_cards) ==
    IF has_hierarchy
    THEN Cardinality({cid \in all_cards :
            IF CardIndex(by_id, cid) = 0 THEN TRUE
            ELSE by_id[CardIndex(by_id, cid)].reps = 0})
    ELSE CountList(cards, "new")

\* variant: without the test of line 499, every direct card is listed
CardDetails_AllCards(cards) ==
    [i \in 1..Len(cards) |->
        [card_id   |-> cards[i].id,
         note_id   |-> cards[i].nid,
         deck      |-> cards[i].deck,
         queue     |-> cards[i].queue,
         due       |-> cards[i].due,
         suspended |-> cards[i].suspended]]

\* lines 496-507: card_details
CardDetails(cards) ==
    LET unstudied == SelectSeq(cards, IsNew)
    IN  [i \in 1..Len(unstudied) |->
            [card_id   |-> unstudied[i].id,
             note_id   |-> unstudied[i].nid,
             deck      |-> unstudied[i].deck,
             queue     |-> unstudied[i].queue,
             due       |-> unstudied[i].due,
             suspended |-> unstudied[i].suspended]]

\* one iteration of the for loop of _create_export_data_fast: tag_data.
\* yield_stats[N].total is the field yield_N_total_cards, and so on.
ExportRecord(by_id, revlog, d, hd, tag) ==
    LET cards           == IF KeyIndex(d, tag) = 0 THEN <<>> ELSE d[KeyIndex(d, tag)].cards
        has_info        == tag \in DOMAIN hd
        total_cards     == Len(cards)
        has_hierarchy   == has_info /\ hd[tag].hierarchical_count > 0
        all_cards       == IF has_info THEN hd[tag].all_unique_cards ELSE {}
        tag_yield_level == YieldLevel(tag)
        yield_stats     == IF tag_yield_level > 0
                           THEN YieldStatsOfMarker(cards, tag_yield_level)
                           ELSE IF has_hierarchy /\ total_cards = 0
                           THEN YieldStatsOfParent(by_id, all_cards)
                           ELSE YieldStatsOfLeaf(cards)
        counts          == StateCounts(by_id, cards, has_hierarchy, all_cards)
    IN  [tag_name                 |-> tag,
         total_cards              |-> total_cards,
         due_cards                |-> counts.due_cards,
         new_cards                |-> counts.new_cards,
         learning_cards           |-> counts.learning_cards,
         review_cards             |-> counts.review_cards,
         mature_cards             |-> counts.mature_cards,
         suspended_cards          |-> counts.suspended_cards,
         unstudied_cards          |-> UnstudiedCards(by_id, cards, has_hierarchy, all_cards),
         high_yield_total_cards   |-> IF tag_yield_level > 0 THEN total_cards
                                      ELSE SumLevels(yield_stats, "total"),
         high_yield_new_cards     |-> IF tag_yield_level > 0
                                      THEN yield_stats[tag_yield_level].new
                                      ELSE SumLevels(yield_stats, "new"),
         high_yield_review_cards  |-> IF tag_yield_level > 0
                                      THEN yield_stats[tag_yield_level].review
                                      ELSE SumLevels(yield_stats, "review"),
         yield_stats              |-> yield_stats,
         hierarchical_total_cards |-> IF has_info THEN hd[tag].hierarchical_count
                                      ELSE total_cards,
         children_cards           |-> IF has_info THEN hd[tag].children_count ELSE 0,
         children_tags            |-> IF has_info THEN hd[tag].children_tags ELSE {},
         parent_tags              |-> IF has_info THEN hd[tag].parent_tags ELSE <<>>,
         review_data              |-> ReviewData(revlog, cards, has_hierarchy, all_cards),
         unstudied_card_details   |-> IF total_cards > 0 THEN CardDetails(cards) ELSE <<>>]

\* variant: only the keys of cards_by_tag
ExportTags_KeysOnly(d, hd) == {d[i].tag : i \in 1..Len(d)}

\* all_tags of _create_export_data_fast
ExportTags(d, hd) == {d[i].tag : i \in 1..Len(d)} \cup DOMAIN hd

\* result: one append per element of the set all_tags; the list is kept as
\* the bag of its elements (the set is iterated in an unspecified order)
RECURSIVE BagOfRecords(_, _, _, _, _)
BagOfRecords(by_id, revlog, d, hd, tags) ==
    IF tags = {} THEN EmptyBag
    ELSE LET tag == CHOOSE t \in tags : TRUE
         IN  SetToBag({ExportRecord(by_id, revlog, d, hd, tag)})
                (+) BagOfRecords(by_id, revlog, d, hd, tags \ {tag})

create_export_data_fast(by_id, revlog, d, hd) ==
    BagOfRecords(by_id, revlog, d, hd, ExportTags(d, hd))

---------------------------------------------------------------------------
(* The snapshot *)

\* a note's tag list, tags_str.strip().split(): any list of at most m tags,
\* repeats included
TagLists(m) == UNION {[1..n -> TagUniverse] : n \in 0..m}

\* number of entries of the lists of s
RECURSIVE TotalLen(_)
TotalLen(s) == IF Len(s) = 0 THEN 0 ELSE Len(Head(s)) + TotalLen(Tail(s))

\* the tag lists of n cards, MaxTagEntries entries at most in all
RECURSIVE TagListsOfCards(_)
TagListsOfCards(n) ==
    IF n = 0 THEN {<<>>}
    ELSE UNION {{Append(s, tags) : tags \in TagLists(MaxTagEntries - TotalLen(s))} :
                   s \in TagListsOfCards(n - 1)}

\* a row of the cards table with the review log of the card: the columns
\* the statistics read
NewRow       == [queue |-> 0, due |-> 0, ivl |-> 0, reps |-> 0,
                 revlog |-> <<>>]
LearningRow  == [queue |-> 1, due |-> 1, ivl |-> 0, reps |-> 1,
                 revlog |-> <<[ease |-> 1, time |-> 5]>>]
MatureRow    == [queue |-> 2, due |-> 0 - 1, ivl |-> 22, reps |-> 2,
                 revlog |-> <<[ease |-> 3, time |-> 7], [ease |-> 4, time |-> 2]>>]
SuspendedRow == [queue |-> 0 - 1, due |-> 0, ivl |-> 21, reps |-> 1,
                 revlog |-> <<[ease |-> 2, time |-> 6]>>]

CardRows == {NewRow, LearningRow, MatureRow, SuspendedRow}

\* the card_info dict of _load_all_data_optimized, lines 126-140
CardInfo(id, nid, row, tags) ==
    [id        |-> id,
     nid       |-> nid,
     deck      |-> "Default",
     queue     |-> row.queue,
     due       |-> row.due,
     ivl       |-> row.ivl,
     reps      |-> row.reps,
     suspended |-> (row.queue = 0 - 1),
     tags      |-> tags]

\* the card_info dict of a card that was never studied
Card(id, tags) == CardInfo(id, id, NewRow, tags)

---------------------------------------------------------------------------
(* One export run: export_data / _get_hierarchical_export_data *)

Init ==
    /\ pc = "start"
    /\ cards_by_id = <<>>
    /\ cards_by_tag = <<>>
    /\ tag_counter = NewTagCounter
    /\ sorted_tags = <<>>
    /\ idx = 0
    /\ hierarchical_data = <<>>
    /\ fallback_taken = FALSE
    /\ export_data = EmptyBag
    /\ record_count = 0
    /\ revlog_by_card = <<>>
    /\ col_available = TRUE
    /\ exports_dir = {}
    /\ result = NoResult
    /\ upload_requests = {}
    /\ sink_fault = "none"
    /\ snapshot = <<>>
    /\ store = EmptyStore
    /\ refresher = IdleRefresher
    /\ marker = IdleMarker
    /\ yield_call = NoYieldCall

\* _load_all_data_optimized: the rows of the cards table, each with the tag
\* list of its note.  Stored card ids are positive (Anki assigns the creation
\* time in milliseconds; 0 is its marker for a card that is not stored).
LoadAllData ==
    /\ pc = "start"
    /\ \E n \in 0..MaxCards : \E tl \in TagListsOfCards(n) :
          cards_by_id' = [i \in 1..n |-> Card(i, tl[i])]
    /\ revlog_by_card' = <<>>
    /\ pc' = "loaded"
    /\ UNCHANGED <<cards_by_tag, tag_counter, sorted_tags, idx, hierarchical_data,
                   fallback_taken, export_data, record_count>>
    /\ UNCHANGED io_vars

FilterCardsByTag ==
    /\ pc = "loaded"
    /\ cards_by_tag' = filter_cards_by_tag_fast(cards_by_id)
    /\ pc' = "filtered"
    /\ UNCHANGED <<cards_by_id, tag_counter, sorted_tags, idx, hierarchical_data,
                   fallback_taken, export_data, record_count>>
    /\ UNCHANGED <<revlog_by_card, io_vars>>

BuildHierarchy ==
    /\ pc = "filtered"
    /\ tag_counter' = build_hierarchy_from_cards(tag_counter, cards_by_tag)
    /\ pc' = "built"
    /\ UNCHANGED <<cards_by_id, cards_by_tag, sorted_tags, idx, hierarchical_data,
                   fallback_taken, export_data, record_count>>
    /\ UNCHANGED <<revlog_by_card, io_vars>>

\* calculate_hierarchical_counts, lines 64-72
CalcStart ==
    /\ pc = "built"
    /\ sorted_tags' \in SortedOrders(AllTags(tag_counter))
    /\ idx' = 1
    /\ hierarchical_data' = <<>>
    /\ pc' = "counting"
    /\ UNCHANGED <<cards_by_id, cards_by_tag, tag_counter, fallback_taken,
                   export_data, record_count>>
    /\ UNCHANGED <<revlog_by_card, io_vars>>

\* calculate_hierarchical_counts, one iteration of lines 75-105
CalcStep ==
    /\ pc = "counting"
    /\ idx <= Len(sorted_tags)
    /\ hierarchical_data' = PutEntry(hierarchical_data, tag_counter, sorted_tags[idx])
    /\ fallback_taken' = (fallback_taken
                            \/ UsesFallback(hierarchical_data, tag_counter, sorted_tags[idx]))
    /\ idx' = idx + 1
    /\ UNCHANGED <<pc, cards_by_id, cards_by_tag, tag_counter, sorted_tags,
                   export_data, record_count>>
    /\ UNCHANGED <<revlog_by_card, io_vars>>

\* the loop is over: hierarchical_data is returned and handed to
\* _create_export_data_fast
CreateExportData ==
    /\ pc = "counting"
    /\ idx > Len(sorted_tags)
    /\ export_data' = create_export_data_fast(cards_by_id, revlog_by_card,
                                               cards_by_tag, hierarchical_data)
    /\ pc' = "exported"
    /\ UNCHANGED <<cards_by_id, cards_by_tag, tag_counter, sorted_tags, idx,
                   hierarchical_data, fallback_taken, record_count>>
    /\ UNCHANGED <<revlog_by_card, io_vars>>

\* len(export_data), the record count the run returns
ReturnCount ==
    /\ pc = "exported"
    /\ record_count' = BagCardinality(export_data)
    /\ pc' = "done"
    /\ UNCHANGED <<cards_by_id, cards_by_tag, tag_counter, sorted_tags, idx,
                   hierarchical_data, fallback_taken, export_data>>
    /\ UNCHANGED <<revlog_by_card, io_vars>>

Next ==
    \/ LoadAllData
    \/ FilterCardsByTag
    \/ BuildHierarchy
    \/ CalcStart
    \/ CalcStep
    \/ CreateExportData
    \/ ReturnCount

Spec == Init /\ [][Next]_vars

---------------------------------------------------------------------------
(* One run of _get_hierarchical_export_data over a snapshot whose cards     *)
(* have been studied and whose notes carry yield markers                    *)

\* a note's tag list of at most m tags: the tags of a note are a set, and
\* the list names each of them once, in any order
YieldTagLists(m) ==
    UNION {{tags \in [1..n -> YieldTagUniverse] :
               \A j, k \in 1..n : tags[j] = tags[k] => j = k} : n \in 0..m}

\* the tag lists of n notes, m entries at most in all
RECURSIVE YieldTagListsOfCards(_, _)
YieldTagListsOfCards(n, m) ==
    IF n = 0 THEN {<<>>}
    ELSE UNION {{Append(s, tags) : tags \in YieldTagLists(m - TotalLen(s))} :
                   s \in YieldTagListsOfCards(n - 1, m)}

\* the tag entries a snapshot of n cards can have: MaxTagEntries at most,
\* and MaxSnapshotSize cards and entries together
EntryBudget(n) ==
    IF MaxSnapshotSize - n < MaxTagEntries THEN MaxSnapshotSize - n ELSE MaxTagEntries

\* the snapshots whose cards have their rows in R: card i belongs to note
\* MaxCards + i
SnapshotsWithRows(R) ==
    UNION {{[i \in 1..n |-> [card   |-> CardInfo(i, MaxCards + i, rows[i], tl[i]),
                             revlog |-> rows[i].revlog]] :
              tl \in YieldTagListsOfCards(n, EntryBudget(n)), rows \in [1..n -> R]} :
           n \in 0..MaxCards}

StudiedSnapshots == SnapshotsWithRows(CardRows)

\* lines 158-166 of _get_hierarchical_export_data on a fresh service: load,
\* filter, build, count, create
GetHierarchicalExportData ==
    /\ pc = "start"
    /\ \E snap \in StudiedSnapshots :
        LET by_id   == [i \in 1..Len(snap) |-> snap[i].card]
            revlog  == [cid \in {i \in 1..Len(snap) : Len(snap[i].revlog) > 0} |->
                           snap[cid].revlog]
            d       == filter_cards_by_tag_fast(by_id)
            counter == build_hierarchy_from_cards(NewTagCounter, d)
        IN  \E order \in SortedOrders(AllTags(counter)) :
              LET hd == calculate_hierarchical_counts(counter, order)
              IN  /\ cards_by_id' = by_id
                  /\ revlog_by_card' = revlog
                  /\ cards_by_tag' = d
                  /\ tag_counter' = counter
                  /\ hierarchical_data' = hd
                  /\ export_data' = create_export_data_fast(by_id, revlog, d, hd)
    /\ pc' = "exported"
    /\ UNCHANGED <<sorted_tags, idx, fallback_taken, record_count, io_vars>>

NextMetrics == GetHierarchicalExportData

SpecMetrics == Init /\ [][NextMetrics]_vars

---------------------------------------------------------------------------
(* The entry points: BaseExportService.export_data and                     *)
(* UnifiedCardExporter.export_all_data with its caller, on a collection    *)
(* that may be missing and a file system that may fail.  A file of the     *)
(* exports directory is its name, the number of records written to it and  *)
(* whether the stream was written to its end.                              *)

ServiceFile == "all_tags_export_user.ndjson.gz"
UnifiedFile == "unified_export.ndjson.gz"

\* a file an earlier run left in the exports directory
OldFile == [name |-> "unified_export_old.ndjson.gz", records |-> 1, complete |-> TRUE]

\* the snapshots of the collection: cards that were never studied
RunSnapshots == SnapshotsWithRows({NewRow})

\* what can happen to the writing of n records: all of it works, gzip.open
\* raises, or a write raises after some records were written
SinkOutcomes(n) ==
    {[fault |-> "ok", written |-> n], [fault |-> "open_fails", written |-> 0]}
        \cup {[fault |-> "write_fails", written |-> k] : k \in 0..(n - 1)}

\* the exports directory after 'with gzip.open(file_path, ...) as f' and its
\* loop of writes: open creates or truncates the file, and leaving the with
\* block closes it, also when a write raised
WriteGzip(dir, name, outcome) ==
    IF outcome.fault = "open_fails" THEN dir
    ELSE {f \in dir : f.name # name}
            \cup {[name     |-> name,
                   records  |-> outcome.written,
                   complete |-> (outcome.fault = "ok")]}

\* _compress_to_gzip_fast: the path, or "" from the except branch
compress_to_gzip_fast(outcome) == IF outcome.fault = "ok" THEN ServiceFile ELSE ""

\* the four pipeline steps on the cards by_id, when sorted() returns order
HierarchicalExport(by_id, revlog, order) ==
    LET d       == filter_cards_by_tag_fast(by_id)
        counter == build_hierarchy_from_cards(NewTagCounter, d)
        hd      == calculate_hierarchical_counts(counter, order)
    IN  [cards_by_tag      |-> d,
         tag_counter       |-> counter,
         hierarchical_data |-> hd,
         export_data       |-> create_export_data_fast(by_id, revlog, d, hd)]

\* the orders sorted() can return for the cards by_id
OrdersOf(by_id) ==
    SortedOrders(AllTags(build_hierarchy_from_cards(NewTagCounter,
                                                    filter_cards_by_tag_fast(by_id))))

\* lines 108-118 of _create_direct_unified_export: the card ids of the
\* unstudied_card_details of the records
UniqueCards(records) ==
    UNION {{r.unstudied_card_details[i].card_id :
               i \in 1..Len(r.unstudied_card_details)} : r \in BagToSet(records)}

\* BaseExportService.export_data
ExportData ==
    /\ pc = "start"
    /\ IF ~ col_available
       THEN /\ result' = [returned |-> TRUE, entry |-> "export_data",
                          file_path |-> "", record_count |-> 0]
            /\ UNCHANGED <<cards_by_id, revlog_by_card, cards_by_tag, tag_counter,
                           hierarchical_data, export_data, record_count,
                           exports_dir, sink_fault, snapshot>>
       ELSE \E snap \in RunSnapshots :
              LET by_id == [i \in 1..Len(snap) |-> snap[i].card]
              IN  \E order \in OrdersOf(by_id) :
                    LET run == HierarchicalExport(by_id, <<>>, order)
                        n   == BagCardinality(run.export_data)
                    IN  \E outcome \in SinkOutcomes(n) :
                          /\ snapshot' = snap
                          /\ cards_by_id' = by_id
                          /\ revlog_by_card' = <<>>
                          /\ cards_by_tag' = run.cards_by_tag
                          /\ tag_counter' = run.tag_counter
                          /\ hierarchical_data' = run.hierarchical_data
                          /\ export_data' = run.export_data
                          /\ record_count' = n
                          /\ sink_fault' = outcome.fault
                          /\ exports_dir' = WriteGzip(exports_dir, ServiceFile, outcome)
                          /\ result' = [returned |-> TRUE, entry |-> "export_data",
                                        file_path |-> compress_to_gzip_fast(outcome),
                                        record_count |-> n]
    /\ pc' = "done"
    /\ UNCHANGED <<sorted_tags, idx, fallback_taken, col_available, upload_requests>>
    /\ UNCHANGED <<session_vars, yield_call>>

\* variant: the factory hands out the service object of the earlier run
create_service_Reused ==
    [cards_by_id    |-> cards_by_id,
     revlog_by_card |-> revlog_by_card,
     tag_counter    |-> tag_counter]

\* ExportServiceFactory.create_service("all_tags"): a new AllTagsExportService,
\* whose __init__ allocates empty dicts and a new HierarchicalTagCounter
create_service ==
    [cards_by_id    |-> <<>>,
     revlog_by_card |-> <<>>,
     tag_counter    |-> NewTagCounter]

\* the card rows of a snapshot, in the order they were read
CardsOf(snap) == [i \in 1..Len(snap) |-> snap[i].card]

\* self.cards_by_id[cid] = card_info for every row read: a key the dict
\* holds keeps its place and gets the new value, a new key is appended
LoadCards(held, rows) ==
    LET Row(cid) == rows[CHOOSE i \in 1..Len(rows) : rows[i].id = cid]
        Has(cid) == \E i \in 1..Len(rows) : rows[i].id = cid
        kept == [k \in 1..Len(held) |->
                    IF Has(held[k].id) THEN Row(held[k].id) ELSE held[k]]
    IN  kept \o SelectSeq(rows, LAMBDA r : \A k \in 1..Len(held) : held[k].id # r.id)

\* lines 160-166 of _get_hierarchical_export_data on the service object
\* service, when the collection holds snap and sorted() returns order
ServiceRun(service, snap, order) ==
    LET by_id   == LoadCards(service.cards_by_id, CardsOf(snap))
        d       == filter_cards_by_tag_fast(by_id)
        counter == build_hierarchy_from_cards(service.tag_counter, d)
        hd      == calculate_hierarchical_counts(counter, order)
    IN  [cards_by_id       |-> by_id,
         cards_by_tag      |-> d,
         tag_counter       |-> counter,
         hierarchical_data |-> hd,
         export_data       |-> create_export_data_fast(by_id, <<>>, d, hd)]

\* the runs of a service object over snap, one for each order sorted() can
\* return
ServiceRuns(service, snap) ==
    LET d       == filter_cards_by_tag_fast(LoadCards(service.cards_by_id, CardsOf(snap)))
        counter == build_hierarchy_from_cards(service.tag_counter, d)
    IN  {ServiceRun(service, snap, order) : order \in SortedOrders(AllTags(counter))}

\* the runs of a new service object, computed once for each snapshot
NewServiceRuns == [snap \in RunSnapshots |-> ServiceRuns(create_service, snap)]

\* ServiceRuns, looked up for a new service object
RunsOf(service, snap) ==
    IF service = [cards_by_id |-> <<>>, revlog_by_card |-> <<>>,
                  tag_counter |-> NewTagCounter]
    THEN NewServiceRuns[snap]
    ELSE ServiceRuns(service, snap)

\* variant: a unified export without records is reported as a failure
UnifiedResult_EmptyFails(outcome, records) ==
    IF outcome.fault = "ok" /\ BagCardinality(records) > 0
    THEN [returned |-> TRUE, entry |-> "export_all_data", success |-> TRUE,
          file_path |-> UnifiedFile, record_count |-> BagCardinality(records),
          unique_cards |-> Cardinality(UniqueCards(records))]
    ELSE [returned |-> TRUE, entry |-> "export_all_data", success |-> FALSE,
          file_path |-> "", record_count |-> 0, unique_cards |-> 0]

\* the result of _create_direct_unified_export
UnifiedResult(outcome, records) ==
    IF outcome.fault = "ok"
    THEN [returned |-> TRUE, entry |-> "export_all_data", success |-> TRUE,
          file_path |-> UnifiedFile, record_count |-> BagCardinality(records),
          unique_cards |-> Cardinality(UniqueCards(records))]
    ELSE [returned |-> TRUE, entry |-> "export_all_data", success |-> FALSE,
          file_path |-> "", record_count |-> 0, unique_cards |-> 0]

\* UnifiedCardExporter.export_all_data: the exports directory is cleared,
\* then _create_direct_unified_export runs.  Without a collection
\* _load_all_data_optimized raises at mw.col, and _get_hierarchical_export_data
\* catches that and returns [] (lines 184-188).
ExportAllData ==
    /\ pc = "start"
    /\ IF ~ col_available
       THEN \E outcome \in SinkOutcomes(0) :
              /\ sink_fault' = outcome.fault
              /\ exports_dir' = WriteGzip({}, UnifiedFile, outcome)
              /\ result' = UnifiedResult(outcome, EmptyBag)
              /\ UNCHANGED <<cards_by_id, revlog_by_card, cards_by_tag, tag_counter,
                             hierarchical_data, export_data, record_count, snapshot>>
       ELSE \E snap \in RunSnapshots :
              \E run \in RunsOf(create_service, snap) :
                LET n == BagCardinality(run.export_data)
                IN  \E outcome \in SinkOutcomes(n) :
                      /\ snapshot' = snap
                      /\ cards_by_id' = run.cards_by_id
                      /\ revlog_by_card' = <<>>
                      /\ cards_by_tag' = run.cards_by_tag
                      /\ tag_counter' = run.tag_counter
                      /\ hierarchical_data' = run.hierarchical_data
                      /\ export_data' = run.export_data
                      /\ record_count' = n
                      /\ sink_fault' = outcome.fault
                      /\ exports_dir' = WriteGzip({}, UnifiedFile, outcome)
                      /\ result' = UnifiedResult(outcome, run.export_data)
    /\ pc' = "exported_all"
    /\ UNCHANGED <<sorted_tags, idx, fallback_taken, col_available, upload_requests>>
    /\ UNCHANGED <<session_vars, yield_call>>

\* _run_all_tags_export_background, lines 34-53: the upload of the file the
\* unified export names
UploadUnified ==
    /\ pc = "exported_all"
    /\ upload_requests' = IF result.success /\ result.file_path # ""
                          THEN upload_requests \cup {result.file_path}
                          ELSE upload_requests
    /\ pc' = "done"
    /\ UNCHANGED <<cards_by_id, cards_by_tag, tag_counter, sorted_tags, idx,
                   hierarchical_data, fallback_taken, export_data, record_count,
                   revlog_by_card, col_available, exports_dir, result, sink_fault,
                   snapshot>>
    /\ UNCHANGED <<session_vars, yield_call>>

InitRun ==
    /\ pc = "start"
    /\ cards_by_id = <<>>
    /\ cards_by_tag = <<>>
    /\ tag_counter = NewTagCounter
    /\ sorted_tags = <<>>
    /\ idx = 0
    /\ hierarchical_data = <<>>
    /\ fallback_taken = FALSE
    /\ export_data = EmptyBag
    /\ record_count = 0
    /\ revlog_by_card = <<>>
    /\ col_available \in BOOLEAN
    /\ exports_dir \in {{}, {OldFile}}
    /\ result = NoResult
    /\ upload_requests = {}
    /\ sink_fault = "none"
    /\ snapshot = <<>>
    /\ store = EmptyStore
    /\ refresher = IdleRefresher
    /\ marker = IdleMarker
    /\ yield_call = NoYieldCall

NextRun ==
    \/ ExportData
    \/ ExportAllData
    \/ UploadUnified

SpecRun == InitRun /\ [][NextRun]_vars

\* the user chooses "Sync to Study Navigator" again after a run has ended;
\* the objects of the earlier run are still in memory when the next run
\* starts
SyncAgain ==
    /\ pc = "done"
    /\ result.returned
    /\ result.entry = "export_all_data"
    /\ pc' = "start"
    /\ result' = NoResult
    /\ sink_fault' = "none"
    /\ UNCHANGED <<cards_by_id, cards_by_tag, tag_counter, sorted_tags, idx,
                   hierarchical_data, fallback_taken, export_data, record_count,
                   revlog_by_card, col_available, exports_dir, upload_requests,
                   snapshot>>
    /\ UNCHANGED <<session_vars, yield_call>>

NextRuns ==
    \/ ExportAllData
    \/ UploadUnified
    \/ SyncAgain

\* one invocation of export_all_data after the other
SpecRuns == InitRun /\ [][NextRuns]_vars

---------------------------------------------------------------------------
(* _create_direct_unified_export over a snapshot with studied cards *)

\* lines 107-143 of _create_direct_unified_export, after
\* _get_hierarchical_export_data has returned the records: the unique cards
\* are counted, the unified file is written and the result is returned
WriteUnifiedFile ==
    /\ pc = "exported"
    /\ \E outcome \in SinkOutcomes(BagCardinality(export_data)) :
          /\ sink_fault' = outcome.fault
          /\ exports_dir' = WriteGzip(exports_dir, UnifiedFile, outcome)
          /\ result' = UnifiedResult(outcome, export_data)
    /\ record_count' = BagCardinality(export_data)
    /\ pc' = "exported_all"
    /\ UNCHANGED <<cards_by_id, revlog_by_card, cards_by_tag, tag_counter,
                   sorted_tags, idx, hierarchical_data, fallback_taken,
                   export_data, col_available, upload_requests, snapshot>>
    /\ UNCHANGED <<session_vars, yield_call>>

NextUnified ==
    \/ GetHierarchicalExportData
    \/ WriteUnifiedFile

SpecUnified == Init /\ [][NextUnified]_vars

---------------------------------------------------------------------------
(* session_store: where the session is kept, get_valid_token on the main   *)
(* thread and mark_user_synced on the thread that handle_login starts.     *)
(* store.keyring tells what the keyring library does ("ok", "fails" when   *)
(* its calls raise, "missing" when it cannot be imported), store.fernet    *)
(* whether the cryptography library and its key file can be used, and      *)
(* store.migrated whether load_session has taken its migration branch.     *)

Now == 0                    \* time.time() of the calls
RefreshWindow == 600        \* refresh_if_within_seconds
DefaultExpiresIn == 3600    \* data.get("expires_in", 3600)

\* the dict that set_session_after_login saves
Session(access_token, refresh_token, expires_at, synced) ==
    [present       |-> TRUE,
     logged_in     |-> TRUE,
     email         |-> "user",
     access_token  |-> access_token,
     refresh_token |-> refresh_token,
     expires_at    |-> expires_at,
     synced        |-> synced]

\* _save_to_keychain returned True
KeychainAccepts(st) == st.keyring = "ok"

\* _save_encrypted_file returned True
EncryptedFileAccepts(st) == st.fernet

\* save_session: the keychain, else the encrypted file, else plaintext
save_session(st, session) ==
    IF KeychainAccepts(st)
    THEN [st EXCEPT !.keychain = session]
    ELSE IF EncryptedFileAccepts(st)
    THEN [st EXCEPT !.file = [kind |-> "encrypted", session |-> session]]
    ELSE [st EXCEPT !.file = [kind |-> "plaintext", session |-> session]]

load_from_keychain(st) == IF st.keyring = "ok" THEN st.keychain ELSE NoSession

\* decrypting a file that is not a Fernet token raises, which gives None
load_encrypted_file(st) ==
    IF st.fernet /\ st.file.kind = "encrypted" THEN st.file.session ELSE NoSession

\* json.load of an encrypted file raises, which gives None
load_plaintext_file(st) ==
    IF st.file.kind = "plaintext" THEN st.file.session ELSE NoSession

\* load_session reaches line 230 with a session from the plaintext file
Migrates(st) ==
    /\ ~ load_from_keychain(st).present
    /\ ~ load_encrypted_file(st).present
    /\ load_plaintext_file(st).present

\* what load_session returns
load_session(st) ==
    IF load_from_keychain(st).present THEN load_from_keychain(st)
    ELSE IF load_encrypted_file(st).present THEN load_encrypted_file(st)
    ELSE load_plaintext_file(st)

\* the storage after load_session: the migration saves the session
StoreAfterLoad(st) ==
    IF Migrates(st)
    THEN [save_session(st, load_plaintext_file(st)) EXCEPT !.migrated = TRUE]
    ELSE st

\* clear_session: delete_password (an exception is swallowed) and os.remove
clear_session(st) ==
    [st EXCEPT !.keychain = IF st.keyring = "ok" THEN NoSession ELSE @,
               !.file = NoFile]

\* is_logged_in(), on the session that load_session returned
is_logged_in(session) == session.present /\ session.logged_in

\* what one http.post can end in: a response (its status, whether its JSON
\* body has an access_token, its error code) or an exception
Response(status, token, error) ==
    [kind |-> "response", status |-> status, token |-> token, error |-> error]

Raised(kind) == [kind |-> kind, status |-> 0, token |-> FALSE, error |-> ""]

HttpOutcomes ==
    {Response(200, TRUE, ""), Response(200, FALSE, ""),
     Response(400, FALSE, "invalid_grant"), Response(400, FALSE, "bad_request"),
     Response(401, FALSE, ""), Response(403, FALSE, ""), Response(500, FALSE, ""),
     Raised("timeout"), Raised("connection_error"), Raised("exception")}

\* the form-encoded attempt is followed by the JSON retry
NeedsRetry(first) ==
    first.kind = "response" /\ (first.status >= 400 \/ ~ first.token)

\* the pairs of outcomes of the two attempts; the second is Raised("none")
\* when there is no retry
AttemptPairs ==
    {<<first, second>> \in HttpOutcomes \X (HttpOutcomes \cup {Raised("none")}) :
        NeedsRetry(first) <=> second.kind # "none"}

\* how the outcome of an attempt is called
EndsIn(outcome) ==
    IF outcome.kind # "response" THEN outcome.kind
    ELSE IF outcome.status >= 500 THEN "5xx"
    ELSE IF outcome.status \in {401, 403} THEN "rejected"
    ELSE IF outcome.status = 400
         THEN IF outcome.error \in {"invalid_grant", "invalid_token",
                                    "token_expired", "token_revoked"}
              THEN "rejected" ELSE "bad_request"
    ELSE IF outcome.token THEN "refreshed" ELSE "no_token"

\* lines 404-452: the locals after the try block.  status_code and resp are
\* assigned when a post returns; an exception of the retry leaves them as
\* the first attempt set them and empties data
AfterAttempts(first, second) ==
    IF first.kind # "response"
    THEN [status_code |-> 0, resp_error |-> "", has_token |-> FALSE,
          network_error |-> TRUE, ends_in |-> EndsIn(first)]
    ELSE IF second.kind = "none"
    THEN [status_code |-> first.status, resp_error |-> first.error,
          has_token |-> first.token, network_error |-> FALSE,
          ends_in |-> EndsIn(first)]
    ELSE IF second.kind # "response"
    THEN [status_code |-> first.status, resp_error |-> first.error,
          has_token |-> FALSE, network_error |-> TRUE,
          ends_in |-> EndsIn(second)]
    ELSE [status_code |-> second.status, resp_error |-> second.error,
          has_token |-> second.token, network_error |-> FALSE,
          ends_in |-> EndsIn(second)]

\* lines 474-509: should_clear_session
should_clear_session(r) ==
    \/ r.status_code \in {401, 403}
    \/ /\ r.status_code = 400
       /\ r.resp_error \in {"invalid_grant", "invalid_token",
                            "token_expired", "token_revoked"}

\* get_valid_token, lines 380-395: the session is loaded; without a session
\* or with a token that is valid for longer than the window the call returns
GetValidTokenLoad ==
    /\ refresher.pc = "idle"
    /\ LET session == load_session(store)
       IN  /\ store' = StoreAfterLoad(store)
           /\ refresher' =
                [IdleRefresher EXCEPT
                    !.session = session,
                    !.pc = IF ~ session.present THEN "done"
                           ELSE IF session.access_token = "" \/ session.refresh_token = ""
                           THEN "done"
                           ELSE IF session.expires_at - Now > RefreshWindow THEN "done"
                           ELSE "refreshing"]
    /\ UNCHANGED <<yield_call, pc, cards_by_id, cards_by_tag, tag_counter, sorted_tags, idx,
                   hierarchical_data, fallback_taken, export_data, record_count,
                   revlog_by_card, col_available, exports_dir, result,
                   upload_requests, sink_fault, snapshot, marker>>

\* lines 404-452: the form-encoded attempt and, if needed, the JSON retry
GetValidTokenRefresh ==
    /\ refresher.pc = "refreshing"
    /\ \E pair \in AttemptPairs :
          LET r == AfterAttempts(pair[1], pair[2])
          IN  refresher' = [refresher EXCEPT
                               !.pc = "decided",
                               !.status_code = r.status_code,
                               !.resp_error = r.resp_error,
                               !.has_token = r.has_token,
                               !.network_error = r.network_error,
                               !.ends_in = r.ends_in]
    /\ UNCHANGED <<yield_call, pc, cards_by_id, cards_by_tag, tag_counter, sorted_tags, idx,
                   hierarchical_data, fallback_taken, export_data, record_count,
                   revlog_by_card, col_available, exports_dir, result,
                   upload_requests, sink_fault, snapshot, store, marker>>

\* lines 455-524: the refreshed session is saved, or the session is
\* cleared, or it is kept (and saved again when the token has expired)
GetValidTokenFinish ==
    /\ refresher.pc = "decided"
    /\ LET session == refresher.session
       IN  IF refresher.has_token
           THEN /\ store' = save_session(store,
                               [session EXCEPT !.access_token = "access_1",
                                               !.refresh_token = "refresh_1",
                                               !.expires_at = Now + DefaultExpiresIn,
                                               !.logged_in = TRUE])
                /\ refresher' = [refresher EXCEPT !.pc = "done"]
           ELSE IF should_clear_session(refresher)
           THEN /\ store' = clear_session(store)
                /\ refresher' = [refresher EXCEPT !.pc = "done"]
           ELSE /\ store' = IF session.expires_at - Now > 0 THEN store
                            ELSE save_session(store, session)
                /\ refresher' = [refresher EXCEPT !.pc = "done"]
    /\ UNCHANGED <<yield_call, pc, cards_by_id, cards_by_tag, tag_counter, sorted_tags, idx,
                   hierarchical_data, fallback_taken, export_data, record_count,
                   revlog_by_card, col_available, exports_dir, result,
                   upload_requests, sink_fault, snapshot, marker>>

\* mark_user_synced, lines 281-285
MarkUserSyncedLoad ==
    /\ marker.pc = "idle"
    /\ LET session == load_session(store)
       IN  /\ store' = StoreAfterLoad(store)
           /\ marker' = [pc |-> IF ~ session.present THEN "done"
                                ELSE IF session.synced THEN "done" ELSE "loaded",
                         session |-> session]
    /\ UNCHANGED <<yield_call, pc, cards_by_id, cards_by_tag, tag_counter, sorted_tags, idx,
                   hierarchical_data, fallback_taken, export_data, record_count,
                   revlog_by_card, col_available, exports_dir, result,
                   upload_requests, sink_fault, snapshot, refresher>>

\* mark_user_synced, lines 286-287
MarkUserSyncedSave ==
    /\ marker.pc = "loaded"
    /\ store' = save_session(store, [marker.session EXCEPT !.synced = TRUE])
    /\ marker' = [marker EXCEPT !.pc = "done"]
    /\ UNCHANGED <<yield_call, pc, cards_by_id, cards_by_tag, tag_counter, sorted_tags, idx,
                   hierarchical_data, fallback_taken, export_data, record_count,
                   revlog_by_card, col_available, exports_dir, result,
                   upload_requests, sink_fault, snapshot, refresher>>

\* the sessions a login has stored: the token has expired, expires within
\* the refresh window, or is valid for longer
StoredSessions ==
    {Session("access_0", "refresh_0", expires_at, synced) :
        expires_at \in {0 - 100, 300, 3000}, synced \in BOOLEAN}

\* the storage a session was saved to by save_session
StoreWith(keyring, fernet, session) ==
    save_session([EmptyStore EXCEPT !.keyring = keyring, !.fernet = fernet], session)

\* the storage when the add-on starts: no session, a session saved by
\* save_session, or the plaintext file that an older version has written
InitialStores ==
    UNION {{[EmptyStore EXCEPT !.keyring = keyring, !.fernet = fernet]}
             \cup {StoreWith(keyring, fernet, session) : session \in StoredSessions}
             \cup {[EmptyStore EXCEPT !.keyring = keyring, !.fernet = fernet,
                                      !.file = [kind |-> "plaintext", session |-> session]] :
                      session \in StoredSessions} :
           keyring \in {"ok", "fails", "missing"}, fernet \in BOOLEAN}

InitSession ==
    /\ pc = "session"
    /\ cards_by_id = <<>>
    /\ cards_by_tag = <<>>
    /\ tag_counter = NewTagCounter
    /\ sorted_tags = <<>>
    /\ idx = 0
    /\ hierarchical_data = <<>>
    /\ fallback_taken = FALSE
    /\ export_data = EmptyBag
    /\ record_count = 0
    /\ revlog_by_card = <<>>
    /\ col_available = TRUE
    /\ exports_dir = {}
    /\ result = NoResult
    /\ upload_requests = {}
    /\ sink_fault = "none"
    /\ snapshot = <<>>
    /\ store \in InitialStores
    /\ refresher = IdleRefresher
    /\ marker = IdleMarker
    /\ yield_call = NoYieldCall

NextRefresh ==
    \/ GetValidTokenLoad
    \/ GetValidTokenRefresh
    \/ GetValidTokenFinish

\* one call of get_valid_token
SpecRefresh == InitSession /\ [][NextRefresh]_vars

NextSession ==
    \/ GetValidTokenLoad
    \/ GetValidTokenRefresh
    \/ GetValidTokenFinish
    \/ MarkUserSyncedLoad
    \/ MarkUserSyncedSave

\* get_valid_token on the main thread while the thread of handle_login runs
\* mark_user_synced
SpecSession == InitSession /\ [][NextSession]_vars

---------------------------------------------------------------------------
(* One run of the sync action: export_all_tags_data of                     *)
(* optimized_tag_exporter                                                  *)

\* variant: the background operation is started whatever is_logged_in says
CheckLogin_Unchecked ==
    /\ pc = "sync"
    /\ store' = StoreAfterLoad(store)
    /\ pc' = "start"
    /\ UNCHANGED <<yield_call, cards_by_id, cards_by_tag, tag_counter, sorted_tags, idx,
                   hierarchical_data, fallback_taken, export_data, record_count,
                   revlog_by_card, col_available, exports_dir, result,
                   upload_requests, sink_fault, snapshot, refresher, marker>>

\* lines 17-21: without a login the function returns after its message;
\* otherwise the background operation is started (lines 126-131)
CheckLogin ==
    /\ pc = "sync"
    /\ store' = StoreAfterLoad(store)
    /\ pc' = IF is_logged_in(load_session(store)) THEN "start" ELSE "done"
    /\ UNCHANGED <<yield_call, cards_by_id, cards_by_tag, tag_counter, sorted_tags, idx,
                   hierarchical_data, fallback_taken, export_data, record_count,
                   revlog_by_card, col_available, exports_dir, result,
                   upload_requests, sink_fault, snapshot, refresher, marker>>

\* the storage when the user chooses the sync action: nobody has logged
\* in, a login has stored a session, or an older version has left its
\* plaintext file
SyncStores ==
    {[EmptyStore EXCEPT !.keyring = "ok", !.fernet = TRUE],
     StoreWith("ok", TRUE, Session("access_0", "refresh_0", 3000, TRUE)),
     [EmptyStore EXCEPT !.file = [kind    |-> "plaintext",
                                  session |-> Session("access_0", "refresh_0", 3000, FALSE)]]}

\* the exports directory holds the file of an earlier run
InitSync ==
    /\ pc = "sync"
    /\ cards_by_id = <<>>
    /\ cards_by_tag = <<>>
    /\ tag_counter = NewTagCounter
    /\ sorted_tags = <<>>
    /\ idx = 0
    /\ hierarchical_data = <<>>
    /\ fallback_taken = FALSE
    /\ export_data = EmptyBag
    /\ record_count = 0
    /\ revlog_by_card = <<>>
    /\ col_available \in BOOLEAN
    /\ exports_dir = {OldFile}
    /\ result = NoResult
    /\ upload_requests = {}
    /\ sink_fault = "none"
    /\ snapshot = <<>>
    /\ store \in SyncStores
    /\ refresher = IdleRefresher
    /\ marker = IdleMarker
    /\ yield_call = NoYieldCall

NextSync ==
    \/ CheckLogin
    \/ ExportAllData
    \/ UploadUnified

SpecSync == InitSync /\ [][NextSync]_vars

---------------------------------------------------------------------------
(* Vocabulary of the properties, stated on the snapshot and on strings     *)
(* without the operators of the counter                                    *)

\* every string that is a prefix of a tag of the universe
PrefixStrings ==
    UNION {{SubSeq(t, 1, k) : k \in 0..Len(t)} : t \in TagUniverse \cup YieldTagUniverse}

\* the segments of those strings, computed once
SegmentTable == [s \in PrefixStrings |-> Split(s)]

\* the segments of a tag path
Segments(p) == IF p \in PrefixStrings THEN SegmentTable[p] ELSE Split(p)

\* p is a proper segment-prefix (an ancestor) of c
IsAncestor(p, c) ==
    /\ Len(Segments(p)) < Len(Segments(c))
    /\ SubSeq(Segments(c), 1, Len(Segments(p))) = Segments(p)

\* the tags of a card, as a set
TagsOf(card) == {card.tags[j] : j \in 1..Len(card.tags)}

\* the cards of the snapshot
SnapshotCards == {cards_by_id[i] : i \in 1..Len(cards_by_id)}

\* the tag paths observed on cards
ObservedPaths == UNION {TagsOf(card) : card \in SnapshotCards}

\* the forest: the observed paths and their proper segment-prefixes
ForestPaths ==
    ObservedPaths \cup {p \in PrefixStrings : \E t \in ObservedPaths : IsAncestor(p, t)}

\* ids of the cards that carry path p directly
Carriers(p) == {card.id : card \in {c \in SnapshotCards : p \in TagsOf(c)}}

\* ids of the cards that carry p or a path that has p as an ancestor
RolledUpCarriers(p) ==
    {card.id : card \in {c \in SnapshotCards :
                            p \in TagsOf(c) \/ \E t \in TagsOf(c) : IsAncestor(p, t)}}

\* calculate_hierarchical_counts returns
Counted == pc = "counting" /\ idx > Len(sorted_tags)

\* build_hierarchy_from_cards has returned
Built == pc = "built"

\* _create_export_data_fast has returned
Exported == pc = "exported"

\* the records of the export
Records == BagToSet(export_data)

---------------------------------------------------------------------------
(* C1 - C9 *)

\* C1: after build + calculate, the rolled-up set of every node is the union
\* of its direct set and the rolled-up sets of all its descendants, which is
\* exactly the set of cards carrying the node's path or a path below it, and
\* hierarchical_count is the size of that set.
C1_RollupIsUnion ==
    Counted =>
        \A t \in DOMAIN hierarchical_data :
            LET e == hierarchical_data[t]
            IN  /\ e.direct_cards = Get(tag_counter.tag_to_cards, t, {})
                /\ e.all_unique_cards =
                      e.direct_cards \cup
                      UNION {hierarchical_data[d].all_unique_cards :
                                d \in {x \in DOMAIN hierarchical_data : IsAncestor(t, x)}}
                /\ e.all_unique_cards = RolledUpCarriers(t)
                /\ e.hierarchical_count = Cardinality(RolledUpCarriers(t))

\* a card sits under two different children of a node and is counted once there
C1_Witness ==
    /\ Counted
    /\ \E t \in DOMAIN hierarchical_data :
        \E d1, d2 \in Get(tag_counter.tag_hierarchy, t, {}) :
            /\ d1 # d2
            /\ hierarchical_data[d1].all_unique_cards
                  \cap hierarchical_data[d2].all_unique_cards # {}
            /\ hierarchical_data[t].direct_cards = {}
            /\ hierarchical_data[t].hierarchical_count = 1

\* C2: a card is in a node's rolled-up set iff the node's path is one of the
\* card's own tags or an ancestor of one of them; all those paths are nodes.
C2_CardMembership ==
    Counted =>
        \A card \in SnapshotCards :
            /\ \A t \in DOMAIN hierarchical_data :
                  (card.id \in hierarchical_data[t].all_unique_cards)
                     <=> (t \in TagsOf(card) \/ \E own \in TagsOf(card) : IsAncestor(t, own))
            /\ \A p \in PrefixStrings :
                  (p \in TagsOf(card) \/ \E own \in TagsOf(card) : IsAncestor(p, own))
                     => p \in DOMAIN hierarchical_data

\* a card is in the rolled-up set of a node two levels above its tag while
\* another card of the snapshot is not
C2_Witness ==
    /\ Counted
    /\ \E c1, c2 \in SnapshotCards : \E t \in DOMAIN hierarchical_data :
          /\ c1.id \in hierarchical_data[t].all_unique_cards
          /\ c2.id \notin hierarchical_data[t].all_unique_cards
          /\ TagsOf(c2) # {}
          /\ \E own \in TagsOf(c1) : Len(Segments(own)) = Len(Segments(t)) + 2
          /\ t \notin TagsOf(c1)

\* C3: hierarchical_count >= direct_count and
\* children_count = hierarchical_count - direct_count >= 0 for every node.
C3_CountsOrdered ==
    Counted =>
        \A t \in DOMAIN hierarchical_data :
            LET e == hierarchical_data[t]
            IN  /\ e.hierarchical_count >= e.direct_count
                /\ e.children_count = e.hierarchical_count - e.direct_count
                /\ e.children_count >= 0

\* a node with direct cards and more cards below it
C3_Witness ==
    /\ Counted
    /\ \E t \in DOMAIN hierarchical_data :
          /\ hierarchical_data[t].direct_count > 0
          /\ hierarchical_data[t].children_count > 0

\* a parent-only path: no card carries it, some card carries a path below it
ParentOnly(p) ==
    /\ Carriers(p) = {}
    /\ \E t \in ObservedPaths : IsAncestor(p, t) /\ Carriers(t) # {}

\* C4: every parent-only path has a record in the export, with
\* total_cards = 0 and hierarchical_total_cards > 0.
C4_ParentOnlyExported ==
    Exported =>
        \A p \in PrefixStrings :
            ParentOnly(p) =>
                /\ \E r \in Records : r.tag_name = p
                /\ \A r \in Records :
                      r.tag_name = p =>
                          r.total_cards = 0 /\ r.hierarchical_total_cards > 0

\* the export holds the record of a parent-only path whose cards are all two
\* levels below it
C4_Witness ==
    /\ Exported
    /\ \E p \in PrefixStrings :
          /\ ParentOnly(p)
          /\ \A t \in ObservedPaths : IsAncestor(p, t) => Len(Segments(t)) = Len(Segments(p)) + 2
          /\ \E r \in Records : r.tag_name = p /\ r.hierarchical_total_cards = 2

\* C5: the export has exactly one record per path of the forest, and the
\* record count of the run is the number of those paths.
C5_OneRecordPerPath ==
    /\ Exported =>
          /\ {r.tag_name : r \in Records} = ForestPaths
          /\ \A r \in Records : CopiesIn(r, export_data) = 1
          /\ \A r1, r2 \in Records : r1.tag_name = r2.tag_name => r1 = r2
    /\ pc = "done" => record_count = Cardinality(ForestPaths)

\* a finished run whose forest has more paths than were observed on cards
C5_Witness ==
    /\ pc = "done"
    /\ Cardinality(ForestPaths) > Cardinality(ObservedPaths)
    /\ Cardinality(ObservedPaths) >= 2
    /\ record_count = Cardinality(ForestPaths)

\* the keys of the mapping the hierarchy is built from
MappingKeys == {cards_by_tag[i].tag : i \in 1..Len(cards_by_tag)}

\* C6: c is recorded as a child of p iff c is an observed path or a
\* segment-prefix of one, has one segment more than p and has p as its
\* segment-prefix; a single-segment path adds no edge.
C6_EdgesExact ==
    Built =>
        /\ \A p \in PrefixStrings \cup DOMAIN tag_counter.tag_hierarchy :
              \A c \in PrefixStrings \cup Get(tag_counter.tag_hierarchy, p, {}) :
                 (c \in Get(tag_counter.tag_hierarchy, p, {}))
                    <=> /\ \E t \in MappingKeys : c = t \/ IsAncestor(c, t)
                        /\ Len(Segments(c)) = Len(Segments(p)) + 1
                        /\ IsAncestor(p, c)
        /\ (\A t \in MappingKeys : Len(Segments(t)) = 1)
              => DOMAIN tag_counter.tag_hierarchy = {}

\* a hierarchy with a two-level chain built next to a single-segment path
\* that has neither parent nor child
C6_Witness ==
    /\ Built
    /\ \E t \in MappingKeys :
          /\ Len(Segments(t)) = 1
          /\ t \notin DOMAIN tag_counter.tag_hierarchy
    /\ \E p \in DOMAIN tag_counter.tag_hierarchy :
          \E c \in tag_counter.tag_hierarchy[p] :
             c \in DOMAIN tag_counter.tag_hierarchy

\* C7: parent_tags of a node with n segments lists its n-1 proper
\* segment-prefixes from shortest to longest.
C7_ParentTagsOrdered ==
    Counted =>
        \A t \in DOMAIN hierarchical_data :
            LET parents == hierarchical_data[t].parent_tags
            IN  /\ Len(parents) = Len(Segments(t)) - 1
                /\ \A i \in 1..Len(parents) :
                      /\ IsAncestor(parents[i], t)
                      /\ Len(Segments(parents[i])) = i
                      /\ parents[i] = SubSeq(t, 1, Len(parents[i]))

\* a node with two ancestors and a node with none
C7_Witness ==
    /\ Counted
    /\ \E t, u \in DOMAIN hierarchical_data :
          /\ Len(hierarchical_data[t].parent_tags) = 2
          /\ hierarchical_data[u].parent_tags = <<>>

\* C8: with the no-filter service, a card whose note carries k distinct tag
\* paths is in the direct set of exactly those k paths.
C8_CardInItsKSets ==
    Built =>
        \A card \in SnapshotCards :
            LET sets == {t \in DOMAIN tag_counter.tag_to_cards :
                            card.id \in tag_counter.tag_to_cards[t]}
            IN  /\ sets = TagsOf(card)
                /\ Cardinality(sets) = Cardinality(TagsOf(card))
                /\ \A p \in PrefixStrings \ TagsOf(card) :
                      card.id \notin Get(tag_counter.tag_to_cards, p, {})

\* a card with two distinct tags next to a card that shares one of them
C8_Witness ==
    /\ Built
    /\ \E c1, c2 \in SnapshotCards :
          /\ c1 # c2
          /\ Cardinality(TagsOf(c1)) = 2
          /\ TagsOf(c1) \cap TagsOf(c2) # {}
          /\ TagsOf(c2) # TagsOf(c1)

\* the nodes below t
Descendants(t) == {d \in AllTags(tag_counter) : IsAncestor(t, d)}

\* C9: a node is processed after all of its descendants: when the loop
\* reaches a node, each of its children has its entry, and the fallback
\* branch is never taken.
C9_ChildrenFirst ==
    /\ ~ fallback_taken
    /\ (pc = "counting" /\ idx <= Len(sorted_tags)) =>
          /\ \A child \in Get(tag_counter.tag_hierarchy, sorted_tags[idx], {}) :
                child \in DOMAIN hierarchical_data
          /\ Descendants(sorted_tags[idx]) \subseteq DOMAIN hierarchical_data

\* the loop is about to process a node that has a child and a grandchild
C9_Witness ==
    /\ pc = "counting"
    /\ idx <= Len(sorted_tags)
    /\ \E child \in Get(tag_counter.tag_hierarchy, sorted_tags[idx], {}) :
          Get(tag_counter.tag_hierarchy, child, {}) # {}

---------------------------------------------------------------------------
(* The aggregator on its own: build_hierarchy_from_cards and               *)
(* calculate_hierarchical_counts applied to any mapping                    *)

\* the card dicts a caller can list under a key (only 'id' is read)
AggCards == {Card(i, <<>>) : i \in 1..MaxCards}

\* a card list of the mapping with at most m entries: filled by append, so
\* never empty; a card can be listed twice
CardLists(m) == UNION {[1..n -> AggCards] : n \in 1..m}

\* number of card entries of the mapping d
RECURSIVE Entries(_)
Entries(d) == IF Len(d) = 0 THEN 0 ELSE Len(Head(d).cards) + Entries(Tail(d))

\* the item sequences of the dicts with k keys and MaxTagEntries card
\* entries at most in all
RECURSIVE MappingsWithKeys(_)
MappingsWithKeys(k) ==
    IF k = 0 THEN {<<>>}
    ELSE UNION {{Append(d, [tag |-> t, cards |-> cards]) :
                    t \in TagUniverse \ {d[i].tag : i \in 1..Len(d)},
                    cards \in CardLists(MaxTagEntries - Entries(d))} :
                   d \in MappingsWithKeys(k - 1)}

Mappings == UNION {MappingsWithKeys(k) : k \in 0..MaxTagEntries}

InitAgg ==
    /\ pc = "filtered"
    /\ cards_by_id = <<>>
    /\ cards_by_tag \in Mappings
    /\ tag_counter = NewTagCounter
    /\ sorted_tags = <<>>
    /\ idx = 0
    /\ hierarchical_data = <<>>
    /\ fallback_taken = FALSE
    /\ export_data = EmptyBag
    /\ record_count = 0
    /\ revlog_by_card = <<>>
    /\ col_available = TRUE
    /\ exports_dir = {}
    /\ result = NoResult
    /\ upload_requests = {}
    /\ sink_fault = "none"
    /\ snapshot = <<>>
    /\ store = EmptyStore
    /\ refresher = IdleRefresher
    /\ marker = IdleMarker
    /\ yield_call = NoYieldCall

NextAgg ==
    \/ BuildHierarchy
    \/ CalcStart
    \/ CalcStep

SpecAgg == InitAgg /\ [][NextAgg]_vars

\* d with its items i and i+1 exchanged
SwapItems(d, i) ==
    [k \in 1..Len(d) |-> IF k = i THEN d[i + 1] ELSE IF k = i + 1 THEN d[i] ELSE d[k]]

\* the mappings that describe the same assignments as d and differ from it
\* by one exchange of neighbours, among the keys or inside one card list
Reorderings(d) ==
    {d} \cup {SwapItems(d, i) : i \in 1..(Len(d) - 1)}
        \cup UNION {{[d EXCEPT ![k].cards = SwapItems(@, j)] :
                        j \in 1..(Len(d[k].cards) - 1)} : k \in 1..Len(d)}

\* C10: the result of build + calculate is the same for every ordering of
\* the tag-to-cards mapping and of the card lists inside it, whatever order
\* sorted() leaves among tags of equal depth.  Exchanges of neighbours
\* generate every permutation and Mappings is closed under them, so it is
\* stated for one exchange.
C10_OrderInvariant ==
    Counted =>
        \A d2 \in Reorderings(cards_by_tag) :
            LET c2 == build_hierarchy_from_cards(NewTagCounter, d2)
            IN  \A order \in SortedOrders(AllTags(c2)) :
                    calculate_hierarchical_counts(c2, order) = hierarchical_data

\* two keys, a card list of two different cards, and a node with cards
\* rolled up from below
C10_Witness ==
    /\ Counted
    /\ Len(cards_by_tag) = 2
    /\ \E k \in 1..2 :
          /\ Len(cards_by_tag[k].cards) = 2
          /\ cards_by_tag[k].cards[1].id # cards_by_tag[k].cards[2].id
    /\ \E t \in DOMAIN hierarchical_data : hierarchical_data[t].children_count > 0

---------------------------------------------------------------------------
(* C11 - C18: the statistics of the records, on snapshots of studied cards *)

\* the card of the snapshot with this id
SnapshotCard(id) == CHOOSE c \in SnapshotCards : c.id = id

\* the record of the export for a path
RecordOf(p) == CHOOSE r \in Records : r.tag_name = p

\* the card ids that represent a node: its direct cards when it has some,
\* its rolled-up set otherwise
Representative(p) == IF Carriers(p) # {} THEN Carriers(p) ELSE RolledUpCarriers(p)

\* the levels of the yield markers a card carries
LevelsOf(card) == {get_yield_level(t) : t \in TagsOf(card)} \ {0}

\* yield_1_total_cards + ... + yield_5_total_cards of a record
YieldTotalSum(r) == SumLevels(r.yield_stats, "total")

\* the orders in which the tags of a list can be listed
TagOrders(tags) ==
    {t \in [1..Len(tags) -> {tags[j] : j \in 1..Len(tags)}] :
        \A j, k \in 1..Len(tags) : t[j] = t[k] => j = k}

\* the records of a run over the cards by_id and the review log of the
\* snapshot, for every order sorted() can return
RerunRecords(by_id) ==
    LET d       == filter_cards_by_tag_fast(by_id)
        counter == build_hierarchy_from_cards(NewTagCounter, d)
    IN  UNION {LET hd == calculate_hierarchical_counts(counter, order)
               IN  {ExportRecord(by_id, revlog_by_card, d, hd, t) : t \in ExportTags(d, hd)} :
               order \in SortedOrders(AllTags(counter))}

\* C11: the yield counts of every record are the same in a run over the
\* snapshot and in a run over a snapshot that differs from it only in the
\* order in which one note lists its tags.
C11_TagOrderIndependent ==
    Exported =>
        \A i \in 1..Len(cards_by_id) :
            \A tags2 \in TagOrders(cards_by_id[i].tags) :
                \A r2 \in RerunRecords([cards_by_id EXCEPT ![i].tags = tags2]) :
                    \E r \in Records :
                        /\ r.tag_name = r2.tag_name
                        /\ r.yield_stats = r2.yield_stats

\* the cards that represent a node
RepresentativeCards(p) == {SnapshotCard(id) : id \in Representative(p)}

C13_ParentYieldFromRollup ==
    Exported =>
        \A r \in Records :
            (Carriers(r.tag_name) = {} /\ RolledUpCarriers(r.tag_name) # {}) =>
                YieldTotalSum(r) =
                    Cardinality({id \in RolledUpCarriers(r.tag_name) :
                                    LevelsOf(SnapshotCard(id)) # {}})

\* C14: in the record of a node whose path has no yield level, every card
\* that represents the node is in at most one yield bucket (the sub-counts
\* add up to at most the number of those cards), and bucket N counts only
\* cards that carry a tag of level N, so a card without a yield tag is in
\* no bucket.
C14_OneBucketPerCard ==
    Exported =>
        \A r \in Records :
            get_yield_level(r.tag_name) = 0 =>
                /\ YieldTotalSum(r) <= Cardinality(Representative(r.tag_name))
                /\ \A N \in 1..5 :
                      r.yield_stats[N].total <=
                          Cardinality({c \in RepresentativeCards(r.tag_name) :
                                          N \in LevelsOf(c)})

\* C15: in every record the legacy aggregate yield counts are the sums of
\* the per-level sub-counts: total, new and review.
C15_LegacyIsSum ==
    Exported =>
        \A r \in Records :
            /\ r.high_yield_total_cards  = SumLevels(r.yield_stats, "total")
            /\ r.high_yield_new_cards    = SumLevels(r.yield_stats, "new")
            /\ r.high_yield_review_cards = SumLevels(r.yield_stats, "review")

\* a record whose aggregate adds up two levels, one of them with a review
\* card, and the record of a yield marker that has a new card
C15_Witness ==
    /\ Exported
    /\ \E r \in Records :
        /\ r.yield_stats[1].total = 1
        /\ r.yield_stats[5].total = 1
        /\ r.high_yield_total_cards = 2
        /\ r.high_yield_review_cards = 1
    /\ \E r \in Records :
        /\ get_yield_level(r.tag_name) > 0
        /\ r.high_yield_total_cards = 1
        /\ r.high_yield_new_cards = 1

\* the review-log entries of the cards that represent a node: <<card id,
\* position in the log of the card>>
EntriesOf(p) ==
    UNION {{<<cid, k>> : k \in 1..Len(revlog_by_card[cid])} :
              cid \in Representative(p) \cap DOMAIN revlog_by_card}

\* the sum of the elapsed times of a set of entries
RECURSIVE TimeOf(_)
TimeOf(E) ==
    IF E = {} THEN 0
    ELSE LET e == CHOOSE x \in E : TRUE
         IN  revlog_by_card[e[1]][e[2]].time + TimeOf(E \ {e})

\* the entries of E with this outcome
Outcome(E, ease) == {e \in E : revlog_by_card[e[1]][e[2]].ease = ease}

C17_UnstudiedOverRepresentative ==
    Exported =>
        \A r \in Records :
            /\ r.unstudied_cards =
                  Cardinality({c \in RepresentativeCards(r.tag_name) : c.reps = 0})
            /\ Carriers(r.tag_name) # {} =>
                  /\ r.unstudied_cards = r.new_cards
                  /\ r.unstudied_cards = Len(r.unstudied_card_details)

\* the detail tuple of a card of the snapshot
DetailOf(c) ==
    [card_id   |-> c.id,
     note_id   |-> c.nid,
     deck      |-> c.deck,
     queue     |-> c.queue,
     due       |-> c.due,
     suspended |-> (c.queue = 0 - 1)]

---------------------------------------------------------------------------
(* C19 - C20: the entry points *)

\* the entry point has handed a failure to its caller: an empty path, and
\* success = False from export_all_data
ReportsFailure ==
    /\ result.returned
    /\ result.file_path = ""
    /\ result.entry = "export_all_data" => ~ result.success

\* the files of the exports directory that the run wrote
Artifacts == {f \in exports_dir : f.name \in {ServiceFile, UnifiedFile}}

\* C19: when the writing of the artifact failed (the file could not be
\* opened, or a write failed after some records), the entry point returns
\* a failure to its caller and no file that was not written to its end is
\* left in the exports directory.
C19_NoPartialArtifact ==
    sink_fault \in {"open_fails", "write_fails"} =>
        /\ ReportsFailure
        /\ \A f \in Artifacts : f.complete

\* C20: when there is no collection, the entry point that ran has returned
\* a failure (an empty path, success = False), the exports directory holds
\* no file written by the run, and no upload was requested.
C20_NoCollectionAborts ==
    (~ col_available /\ pc # "start") =>
        /\ ReportsFailure
        /\ Artifacts = {}
        /\ upload_requests = {}

---------------------------------------------------------------------------
(* C21 - C23, C26: runs of the entry points *)

\* the run that has returned read a collection without cards and the file
\* system did what it was asked
EmptyRunDone ==
    /\ pc # "start"
    /\ col_available
    /\ Len(cards_by_id) = 0
    /\ sink_fault = "ok"

\* C21: a run over an available collection without cards succeeds: it has
\* no records, the file it wrote is a stream of zero records written to its
\* end, and the caller is given the path of that file with record_count = 0
\* (and success = True from export_all_data), not a failure.
C21_EmptySnapshotSucceeds ==
    EmptyRunDone =>
        /\ export_data = EmptyBag
        /\ \E f \in Artifacts : f.name = result.file_path
        /\ \A f \in Artifacts : f.records = 0 /\ f.complete
        /\ result.record_count = 0
        /\ result.entry = "export_all_data" => result.success

C21_Witness ==
    /\ EmptyRunDone
    /\ result.entry = "export_all_data"
    /\ result.success
    /\ exports_dir = {[name |-> UnifiedFile, records |-> 0, complete |-> TRUE]}

\* the records of a run that sees nothing but the snapshot snap
RecordsOfSnapshot(snap) ==
    {HierarchicalExport(CardsOf(snap), <<>>, order).export_data :
        order \in OrdersOf(CardsOf(snap))}

\* C22: whatever runs came before, the records of a run of export_all_data
\* are the records that a run over its snapshot alone produces: no card,
\* edge or card set of an earlier run is in them.
C22_RecordsOfSnapshotOnly ==
    (pc = "exported_all" /\ col_available) =>
        export_data \in RecordsOfSnapshot(snapshot)

\* a run over a snapshot without cards that follows a run over a snapshot
\* with a tagged card
C22_Witness ==
    /\ pc = "exported_all"
    /\ col_available
    /\ snapshot = <<>>
    /\ export_data = EmptyBag
    /\ upload_requests # {}

---------------------------------------------------------------------------
(* C27 - C29: the stored session *)

\* the session that the storage holds: what the next load_session returns
StoredSession == load_session(store)

\* the outcomes after which the refresh is to be tried again later
TemporaryOutcomes == {"timeout", "connection_error", "exception", "5xx"}

\* get_valid_token has returned after its attempts to refresh
RefreshAttempted == refresher.pc = "done" /\ refresher.ends_in # ""

\* C27: after a call of get_valid_token that tried to refresh, the stored
\* session is gone only if the last attempt ended in a permanent rejection
\* by the endpoint (401, 403, or 400 with one of the four error codes), and
\* whenever the last attempt ended in a timeout, a connection error,
\* another exception or a 5xx response the stored session is the one that
\* the call had loaded, whatever the form-encoded attempt before it gave.
C27_ClearedOnlyWhenRejected ==
    RefreshAttempted =>
        /\ ~ StoredSession.present => refresher.ends_in = "rejected"
        /\ refresher.ends_in \in TemporaryOutcomes => StoredSession = refresher.session

\* get_valid_token has saved a refreshed session and mark_user_synced has
\* run on a session that was not yet marked
BothCompleted ==
    /\ refresher.pc = "done"
    /\ refresher.has_token
    /\ marker.pc = "done"
    /\ marker.session.present

\* C28: when a call of get_valid_token that refreshed the tokens and a call
\* of mark_user_synced have both completed, in whatever way their steps
\* were interleaved, the stored session has the refreshed access_token,
\* refresh_token and expires_at and has synced = true.
C28_NoLostUpdate ==
    BothCompleted =>
        /\ StoredSession.present
        /\ StoredSession.access_token = "access_1"
        /\ StoredSession.refresh_token = "refresh_1"
        /\ StoredSession.expires_at = Now + DefaultExpiresIn
        /\ StoredSession.synced

\* C29: once load_session has migrated a plaintext session file and the
\* keychain or the encrypted file accepts the save, the file at the session
\* path is encrypted or absent.
C29_NoPlaintextAfterMigration ==
    (store.migrated /\ (KeychainAccepts(store) \/ EncryptedFileAccepts(store))) =>
        store.file.kind # "plaintext"

---------------------------------------------------------------------------
(* C23: the steps of a sync run *)

\* the run ended at the login check
EndedAtLoginCheck == pc = "done" /\ ~ result.returned

\* C23: in a sync run, a run that is not logged in ends at the login check
\* with the files of the exports directory in place and nothing aggregated;
\* the aggregation runs only for a logged-in user; no upload is requested
\* before export_all_data has returned, and a requested upload is the
\* upload of the non-empty file path of a successful result; the run makes
\* no token refresh.
C23_StepsOrdered ==
    /\ EndedAtLoginCheck =>
          /\ ~ is_logged_in(StoredSession)
          /\ exports_dir = {OldFile}
          /\ export_data = EmptyBag
          /\ upload_requests = {}
    /\ (pc = "start" \/ result.returned) => is_logged_in(StoredSession)
    /\ pc # "done" => upload_requests = {}
    /\ upload_requests # {} =>
          /\ result.returned
          /\ result.success
          /\ result.file_path # ""
          /\ upload_requests = {result.file_path}
    /\ (result.returned /\ ~ result.success) => upload_requests = {}
    /\ refresher.pc = "idle"

\* a logged-in run has cleared the directory, written its file and
\* requested its upload
C23_Witness ==
    /\ pc = "done"
    /\ col_available
    /\ result.returned
    /\ result.success
    /\ OldFile \notin exports_dir
    /\ upload_requests = {UnifiedFile}
    /\ Len(cards_by_id) > 0

---------------------------------------------------------------------------
(* Calls on one HierarchicalTagCounter: build_hierarchy_from_cards,        *)
(* calculate_hierarchical_counts and reset in any order.  cards_by_tag is  *)
(* the mapping the last build read; a build that returns at line 18 reads  *)
(* nothing.                                                                *)

\* the mappings handed to build_hierarchy_from_cards: the empty dict and the
\* dicts with one key, a list of MaxListings cards at most under it
CounterInputs ==
    {<<>>} \cup {<<[tag |-> t, cards |-> cards]>> :
                    t \in TagUniverse, cards \in CardLists(MaxListings)}

InitCounter ==
    /\ pc = "fresh"
    /\ cards_by_id = <<>>
    /\ cards_by_tag = <<>>
    /\ tag_counter = NewTagCounter
    /\ sorted_tags = <<>>
    /\ idx = 0
    /\ hierarchical_data = <<>>
    /\ fallback_taken = FALSE
    /\ export_data = EmptyBag
    /\ record_count = 0
    /\ revlog_by_card = <<>>
    /\ col_available = TRUE
    /\ exports_dir = {}
    /\ result = NoResult
    /\ upload_requests = {}
    /\ sink_fault = "none"
    /\ snapshot = <<>>
    /\ store = EmptyStore
    /\ refresher = IdleRefresher
    /\ marker = IdleMarker
    /\ yield_call = NoYieldCall

\* tag_counter.build_hierarchy_from_cards(d)
BuildCall ==
    /\ \E d \in CounterInputs :
          /\ tag_counter' = build_hierarchy_from_cards(tag_counter, d)
          /\ IF tag_counter.hierarchy_built
             THEN /\ pc' = "build_returned_early"
                  /\ UNCHANGED cards_by_tag
             ELSE /\ pc' = "build_returned"
                  /\ cards_by_tag' = d
    /\ UNCHANGED <<cards_by_id, sorted_tags, idx, hierarchical_data,
                   fallback_taken, export_data, record_count, revlog_by_card,
                   io_vars>>

\* tag_counter.calculate_hierarchical_counts(): the counter's collections
\* are read with keys(), get() and copy() only
CalculateCall ==
    /\ \E order \in SortedOrders(AllTags(tag_counter)) :
          hierarchical_data' = calculate_hierarchical_counts(tag_counter, order)
    /\ pc' = "calculate_returned"
    /\ UNCHANGED <<cards_by_id, cards_by_tag, tag_counter, sorted_tags, idx,
                   fallback_taken, export_data, record_count, revlog_by_card,
                   io_vars>>

\* tag_counter.reset()
ResetCall ==
    /\ tag_counter' = reset(tag_counter)
    /\ pc' = "reset_returned"
    /\ UNCHANGED <<cards_by_id, cards_by_tag, sorted_tags, idx, hierarchical_data,
                   fallback_taken, export_data, record_count, revlog_by_card,
                   io_vars>>

NextCounter ==
    \/ BuildCall
    \/ CalculateCall
    \/ ResetCall

SpecCounter == InitCounter /\ [][NextCounter]_vars

---------------------------------------------------------------------------
(* Calls of _get_yield_level *)

InitYield ==
    /\ pc = "yield"
    /\ cards_by_id = <<>>
    /\ cards_by_tag = <<>>
    /\ tag_counter = NewTagCounter
    /\ sorted_tags = <<>>
    /\ idx = 0
    /\ hierarchical_data = <<>>
    /\ fallback_taken = FALSE
    /\ export_data = EmptyBag
    /\ record_count = 0
    /\ revlog_by_card = <<>>
    /\ col_available = TRUE
    /\ exports_dir = {}
    /\ result = NoResult
    /\ upload_requests = {}
    /\ sink_fault = "none"
    /\ snapshot = <<>>
    /\ store = EmptyStore
    /\ refresher = IdleRefresher
    /\ marker = IdleMarker
    /\ \E segments \in SegmentLists :
          yield_call = [returned |-> FALSE, segments |-> segments,
                        tag |-> Join(segments)]

\* self._get_yield_level(tag)
GetYieldLevel ==
    /\ pc = "yield"
    /\ yield_call' = [returned |-> TRUE, segments |-> yield_call.segments,
                      tag |-> yield_call.tag,
                      level |-> get_yield_level(yield_call.tag)]
    /\ pc' = "yield_done"
    /\ UNCHANGED <<cards_by_id, cards_by_tag, tag_counter, sorted_tags, idx,
                   hierarchical_data, fallback_taken, export_data, record_count,
                   revlog_by_card, col_available, exports_dir, result,
                   upload_requests, sink_fault, snapshot, session_vars>>

NextYield == GetYieldLevel

SpecYield == InitYield /\ [][NextYield]_vars

---------------------------------------------------------------------------
(* C24: the yield level of a tag *)

\* s starts with a digit 1-5 followed by '-' or '_'
HasLevelPrefix(s) ==
    /\ Len(s) >= 2
    /\ s[1] \in {"1", "2", "3", "4", "5"}
    /\ s[2] \in {"-", "_"}

\* the digit a segment starts with, as a number
LeadingDigit(s) ==
    CHOOSE n \in 1..5 : s[1] = <<"1", "2", "3", "4", "5">>[n]

\* the tag is a yield marker: in lower case it has 'high' and 'yield', or
\* one of 'highyield', 'lowyield', 'loweryield'
IsYieldMarker(t) ==
    LET lower == ToLower(t)
    IN  \/ Contains(lower, Pat_high) /\ Contains(lower, Pat_yield)
        \/ \E pat \in {Pat_highyield, Pat_lowyield, Pat_loweryield} :
              Contains(lower, pat)

\* positions of the segments of the call's tag that have a level prefix
LevelSegments ==
    {i \in 1..Len(yield_call.segments) : HasLevelPrefix(yield_call.segments[i])}

\* C24: _get_yield_level returns 0 when the tag is not a yield marker or
\* none of its segments starts with a digit 1-5 followed by '-' or '_';
\* otherwise it returns the digit of the outermost such segment.  The result
\* is in 0..5.
C24_YieldLevelOfFirstSegment ==
    yield_call.returned =>
        /\ yield_call.level \in 0..5
        /\ yield_call.level =
              IF ~ IsYieldMarker(yield_call.tag) \/ LevelSegments = {} THEN 0
              ELSE LET first == CHOOSE i \in LevelSegments :
                                    \A j \in LevelSegments : i <= j
                   IN  LeadingDigit(yield_call.segments[first])

\* a marker tag whose outermost segment has no level prefix and whose two
\* inner segments have prefixes of different levels: the level returned is
\* the one of the second segment
C24_Witness ==
    /\ yield_call.returned
    /\ Len(yield_call.segments) = 3
    /\ LevelSegments = {2, 3}
    /\ LeadingDigit(yield_call.segments[2]) # LeadingDigit(yield_call.segments[3])
    /\ yield_call.level = LeadingDigit(yield_call.segments[2])
    /\ yield_call.level > 0

---------------------------------------------------------------------------
(* C25: total_cards and the aggregator's direct_count *)

\* C25: in every export record total_cards is the direct_count of the
\* aggregator for the record's tag, and children_cards is
\* hierarchical_total_cards - total_cards.
C25_TotalIsDirectCount ==
    Exported =>
        \A r \in Records :
            /\ r.tag_name \in DOMAIN hierarchical_data =>
                  r.total_cards = hierarchical_data[r.tag_name].direct_count
            /\ r.children_cards = r.hierarchical_total_cards - r.total_cards

---------------------------------------------------------------------------
(* C26: unique_cards of the unified export *)

\* the cards of the snapshot that carry at least one tag
TaggedCards == {c.id : c \in {x \in SnapshotCards : TagsOf(x) # {}}}

\* C26: the unique_cards value of a successful unified export is the number
\* of distinct cards of the snapshot that carry at least one tag, studied or
\* not.
C26_UniqueCardsCountsTagged ==
    (pc = "exported_all" /\ result.returned /\ result.success) =>
        result.unique_cards = Cardinality(TaggedCards)

---------------------------------------------------------------------------
(* C30: the life cycle of a HierarchicalTagCounter *)

\* what calculate_hierarchical_counts can return on the counter c
CountsOf(c) ==
    {calculate_hierarchical_counts(c, order) : order \in SortedOrders(AllTags(c))}

\* C30: a build on a counter that is already built changes none of its
\* collections, and the counts calculate_hierarchical_counts returned before
\* it are the counts it returns after it; calculate_hierarchical_counts changes nothing of the
\* counter; a build after reset() gives what the build gives on a fresh
\* counter.
C30_BuiltCounterFrozen ==
    [][/\ (tag_counter.hierarchy_built
             /\ pc' \in {"build_returned", "build_returned_early"}) =>
              /\ tag_counter' = tag_counter
              /\ pc = "calculate_returned" =>
                    hierarchical_data \in CountsOf(tag_counter')
       /\ pc' = "calculate_returned" => tag_counter' = tag_counter
       /\ (pc = "reset_returned" /\ pc' = "build_returned") =>
              tag_counter' = build_hierarchy_from_cards(NewTagCounter, cards_by_tag')
      ]_vars

\* a counter with cards whose counts were calculated has returned early from
\* a further build
C30_Witness ==
    /\ pc = "build_returned_early"
    /\ tag_counter.hierarchy_built
    /\ tag_counter.unique_card_ids # {}
    /\ tag_counter.tag_hierarchy # <<>>
    /\ hierarchical_data \in CountsOf(tag_counter)

====
